---- MODULE Spec2Model ----
(***************************************************************************)
(* Host agent: task-to-container translation and lifecycle controller.     *)
(*   src/clean_manager.py  ContainerManager (Instance Controller)          *)
(*   src/agent.py          Agent.process_task (Task Processor), Agent.run  *)
(*   src/api_client.py     APIClient.poll_for_tasks (Control Loop)         *)
(* The container engine (docker) is the environment: it keeps containers,  *)
(* volumes and images, and answers each command from its state or with a   *)
(* fault chosen nondeterministically.                                      *)
(***************************************************************************)
EXTENDS Integers, Sequences, FiniteSets, TLC

VARIABLES
    containers,          \* engine: set of instances [name, id, running, ports, memory,
                         \*         shm, swap, shm_size, cpuset, devices]
    volumes,             \* engine: set of volume names
    images,              \* engine: images present locally
    nextId,              \* engine: number of the next instance id it assigns
    bound,               \* host ports bound by other processes
    pc,                  \* polling thread: "pull" | "dispatch" | "report"
    consecutive_errors,  \* poll_for_tasks local
    wait,                \* seconds slept at the end of the last cycle (0: none yet)
    task,                \* full_task of the current / last cycle, or None
    result,              \* what the callback returned for it, or None
    calls,               \* engine commands the callback issued, in order
    report,              \* status report sent for it, or None
    cycle,               \* how the last finished cycle ended
    caught,              \* the exception process_task caught and logged, or None
    main,                \* Agent.run: "check_docker" | "fix_permissions" | "check_gpu" |
                         \*   "confirm" | "send_init" | "start_polling" (initialization),
                         \*   "running" (main loop), "stopped" (interrupted),
                         \*   "returned" (run() returned before the main loop)
    heartbeat_counter,   \* Agent.run local: ticks since the last heartbeat attempt
    heartbeat,           \* what the last tick's heartbeat attempt did ("none": no attempt)
    agent_id,            \* Agent.agent_id: the identity token, or None
    credential,          \* APIClient.agent_id, set by set_credentials, or None
    id_file,             \* contents of AGENT_ID_FILE, or None when it does not exist
    init_log             \* what initialize() and run() did before the main loop, in order

engineVars == <<containers, volumes, images, nextId>>
pollVars == <<pc, consecutive_errors, wait, task, result, calls, report, cycle, caught>>
mainVars == <<main, heartbeat_counter, heartbeat>>
initVars == <<agent_id, credential, id_file, init_log>>
vars == <<containers, volumes, images, nextId, bound,
          pc, consecutive_errors, wait, task, result, calls, report, cycle, caught,
          main, heartbeat_counter, heartbeat,
          agent_id, credential, id_file, init_log>>

\* ------------------------------------------------------------------ bounds
MaxInstances == 2        \* instances the engine creates in one run of the model
MaxErrors == 6           \* cap on consecutive_errors under SpecBackoff
MaxErrorsEngine == 1     \* cap on consecutive_errors under Spec
MaxRam == 9              \* largest ram_allocated_gb under SpecTranslate
MaxGpus == 2             \* largest gpu_required under SpecTranslate

\* ------------------------------------------------------- program constants
max_consecutive_errors == 5
HeartbeatEvery == 5      \* ticks of 60 s between heartbeat attempts

\* ------------------------------------------------------------ value model
\* Python None / an optional value.
None == <<>>
Some(v) == <<v>>
Val(o) == o[1]

TaskIds == {1, 2}
Images == {"x", "y"}
ExtPorts == {5000}

\* Ordered host_port -> container_port tables (dict order is insertion order).
PM_A == << <<5000, 22>> >>
PM_B == << <<5001, 22>>, <<5002, 8888>> >>
PM_C == << <<5003, 8888>> >>

Range(s) == {s[i] : i \in 1..Len(s)}

ContainerName(task_id) == "task_" \o ToString(task_id)
EngineId(n) == "c" \o ToString(n)
WorkVolume(name) == name \o "-work"

Engine == [containers |-> containers, volumes |-> volumes, images |-> images,
           nextId |-> nextId, bound |-> bound]

\* ------------------------------------------------------------ the engine
\* Commands that may fail for a reason outside the controller (daemon down,
\* registry unreachable, ...); "_exc" means the invocation itself raises.
\* "strict": the engine answers a stop of a stopped instance with the error
\* "is not running" instead of return code 0.  "race": another process binds
\* a host port of the start between the port check and the run.
FaultCmds == {"ps", "start", "pull", "volume", "run", "stop", "rm", "stop_exc", "rm_exc"}
Faults ==
    {{}, {"strict"}, {"race"}} \cup {{c} : c \in FaultCmds} \cup {{"stop", "rm"}, {"stop", "rm_exc"}}

\* One engine invocation as the controller sees it: the command, its return
\* code (-1: the invocation raised) and the phrases of its error output.
Call(cmd, rc, out) == [cmd |-> cmd, rc |-> rc, out |-> out]
Ok(cmd) == Call(cmd, 0, {})
Down(cmd) == Call(cmd, 1, {"Cannot connect to the Docker daemon"})
Cmds(calls_) == [i \in 1..Len(calls_) |-> calls_[i].cmd]

HostPorts(port_mapping) == {port_mapping[i][1] : i \in 1..Len(port_mapping)}

\* Host ports published by running instances.
Published(e) == UNION {HostPorts(c.ports) : c \in {d \in e.containers : d.running}}

\* Instances an identifier (id or name) designates.
Resolve(e, ident) == {c \in e.containers : c.id = ident \/ c.name = ident}

\* docker start <name>: refused when a published port is taken meanwhile.
PortTaken(e, name) ==
    \E c \in e.containers : c.name = name /\ HostPorts(c.ports) \cap e.bound # {}

EngineStartFails(e, name, f) == "start" \in f \/ PortTaken(e, name)

\* What the failed docker start answers.
StartRefused(e, name, f) ==
    IF "start" \in f THEN Down("start")
    ELSE Call("start", 1, {"port is already allocated"})

EngineStart(e, name) ==
    [e EXCEPT !.containers =
        {IF c.name = name THEN [c EXCEPT !.running = TRUE] ELSE c : c \in e.containers}]

\* The host ports another process takes between the port check and the run.
RaceBinds(port_mapping, f) ==
    IF "race" \in f THEN HostPorts(port_mapping) \cap ExtPorts ELSE {}

\* What docker run answers when a host port was taken meanwhile.
RunRefused == Call("run", 125, {"port is already allocated"})

\* Mutant: without a selector no accelerator device is visible.
VisibleDevices_NoneWhenUnset(gpus) ==
    IF gpus = None \/ gpus = Some("") THEN "none" ELSE Val(gpus)

\* -e NVIDIA_VISIBLE_DEVICES={'all' if not gpus else gpus}
VisibleDevices(gpus) == IF gpus = None \/ gpus = Some("") THEN "all" ELSE Val(gpus)

\* Settings.shm_size, the controller's default for --shm-size.
shm_size == "1g"

\* Mutant: no --shm-size argument when the start was given no shm_size_gb.
ShmSizeArg_NoDefault(shm_size_gb) ==
    IF shm_size_gb # None THEN Some(ToString(Val(shm_size_gb)) \o "g") ELSE None

\* "--shm-size", f"{shm_size_gb}g" if shm_size_gb is not None else self.s.shm_size
ShmSizeArg(shm_size_gb) ==
    IF shm_size_gb # None THEN Some(ToString(Val(shm_size_gb)) \o "g") ELSE Some(shm_size)

\* Mutant: the swap limit is left out of the run.
MemorySwapArg_Unset(memory_gb, memory_swap_gb) == None

\* --memory-swap, passed with --memory only: memory_swap_gb, or memory_gb
\* when that is None.
MemorySwapArg(memory_gb, memory_swap_gb) ==
    IF memory_gb = None THEN None
    ELSE IF memory_swap_gb # None THEN memory_swap_gb
    ELSE memory_gb

\* docker run -d --name <name> ... <image>: a new instance with a fresh id.
EngineRun(e, name, port_mapping, p) ==
    [e EXCEPT !.containers = @ \cup {[name |-> name, id |-> EngineId(e.nextId),
                                      running |-> TRUE, ports |-> port_mapping,
                                      memory |-> p.memory_gb, shm |-> p.shm_size_gb,
                                      swap |-> MemorySwapArg(p.memory_gb, p.memory_swap_gb),
                                      shm_size |-> ShmSizeArg(p.shm_size_gb),
                                      cpuset |-> p.cpuset_cpus,
                                      devices |-> VisibleDevices(p.gpus)]},
              !.nextId = @ + 1]

\* docker stop <id>: return code and the phrases of its error output.
EngineStop(e, ident, f) ==
    IF "stop" \in f THEN [e |-> e, rc |-> 1, out |-> {"Cannot connect to the Docker daemon"}]
    ELSE IF Resolve(e, ident) = {} THEN [e |-> e, rc |-> 1, out |-> {"No such container"}]
    ELSE IF \A c \in Resolve(e, ident) : ~c.running
         THEN IF "strict" \in f THEN [e |-> e, rc |-> 1, out |-> {"is not running"}]
              ELSE [e |-> e, rc |-> 0, out |-> {}]
    ELSE [e |-> [e EXCEPT !.containers =
                    {IF c \in Resolve(e, ident) THEN [c EXCEPT !.running = FALSE] ELSE c
                        : c \in e.containers}],
          rc |-> 0, out |-> {}]

\* docker rm <id>: a running instance is refused.
EngineRm(e, ident, f) ==
    IF "rm" \in f THEN [e |-> e, rc |-> 1, out |-> {"Cannot connect to the Docker daemon"}]
    ELSE IF Resolve(e, ident) = {} THEN [e |-> e, rc |-> 1, out |-> {"No such container"}]
    ELSE IF \E c \in Resolve(e, ident) : c.running
         THEN [e |-> e, rc |-> 1, out |-> {"cannot remove a running container"}]
    ELSE [e |-> [e EXCEPT !.containers = @ \ Resolve(e, ident)], rc |-> 0, out |-> {}]

\* ------------------------------------------------ ContainerManager (controller)
\* What a controller call leaves behind: the engine, the value returned, the
\* exception raised (None: none) and the commands issued.
Return(e, calls_, ret) == [e |-> e, ret |-> ret, raised |-> None, calls |-> calls_, capped |-> FALSE]
Raise(e, calls_, error) == [e |-> e, ret |-> None, raised |-> Some(error), calls |-> calls_, capped |-> FALSE]

_running(e, name) == \E c \in e.containers : c.name = name /\ c.running

\* Mutant: the listing leaves out stopped instances (docker ps without -a).
_exists_RunningOnly(e, name) == \E c \in e.containers : c.name = name /\ c.running

_exists(e, name) == \E c \in e.containers : c.name = name

_port_free(e, port) == port \notin e.bound /\ port \notin Published(e)

\* Mutant: once a port is bound the error names every port of the mapping.
BadPorts_AllRequired(e, port_mapping) ==
    IF \E h \in HostPorts(port_mapping) : ~_port_free(e, h)
    THEN HostPorts(port_mapping) ELSE {}

\* The list `bad` of _assert_port_mapping_free / _assert_ports_free.
BadPorts(e, port_mapping) == {h \in HostPorts(port_mapping) : ~_port_free(e, h)}

\* [e, ok, calls]: image present locally, or pulled.
_docker_images_has(e, image, f) ==
    IF image \in e.images THEN [e |-> e, ok |-> TRUE, calls |-> <<Ok("image inspect")>>]
    ELSE IF "pull" \in f
         THEN [e |-> e, ok |-> FALSE,
               calls |-> <<Call("image inspect", 1, {"No such image"}), Down("pull")>>]
    ELSE [e |-> [e EXCEPT !.images = @ \cup {image}], ok |-> TRUE,
          calls |-> <<Call("image inspect", 1, {"No such image"}), Ok("pull")>>]

\* Mutant: the start goes on although the image is neither local nor pulled.
CreatePath_IgnoresImage(e, name, port_mapping, p, f, pre) ==
    IF BadPorts(e, port_mapping) # {}
    THEN Raise(e, pre \o <<Call("bind", 1, {"Address already in use"})>>,
               <<"ports in use", BadPorts(e, port_mapping)>>)
    ELSE LET img == _docker_images_has(e, p.image, f)
             c1 == pre \o <<Ok("bind")>> \o img.calls
         IN  IF "volume" \in f
             THEN Raise(img.e, c1 \o <<Down("volume create")>>, <<"engine">>)
             ELSE LET e2 == [img.e EXCEPT !.volumes = @ \cup {WorkVolume(name)}]
                      c2 == c1 \o <<Ok("volume create")>>
                  IN  IF "run" \in f THEN Raise(e2, c2 \o <<Down("run")>>, <<"engine">>)
                      ELSE IF e.nextId > MaxInstances
                           THEN [Raise(e2, c2, <<"engine">>) EXCEPT !.capped = TRUE]
                      ELSE Return(EngineRun(e2, name, port_mapping, p), c2 \o <<Ok("run")>>,
                                  Some(EngineId(e.nextId)))

\* Mutant: the volume is created before the ports are checked.
CreatePath_VolumeFirst(e, name, port_mapping, p, f, pre) ==
    IF "volume" \in f
    THEN Raise(e, pre \o <<Down("volume create")>>, <<"engine">>)
    ELSE LET e1 == [e EXCEPT !.volumes = @ \cup {WorkVolume(name)}]
             c0 == pre \o <<Ok("volume create")>>
         IN  IF BadPorts(e1, port_mapping) # {}
             THEN Raise(e1, c0 \o <<Call("bind", 1, {"Address already in use"})>>,
                        <<"ports in use", BadPorts(e1, port_mapping)>>)
             ELSE LET img == _docker_images_has(e1, p.image, f)
                      c1 == c0 \o <<Ok("bind")>> \o img.calls
                  IN  IF ~img.ok THEN Raise(img.e, c1, <<"image unavailable", p.image>>)
                      ELSE IF "run" \in f THEN Raise(img.e, c1 \o <<Down("run")>>, <<"engine">>)
                      ELSE IF e.nextId > MaxInstances
                           THEN [Raise(img.e, c1, <<"engine">>) EXCEPT !.capped = TRUE]
                      ELSE Return(EngineRun(img.e, name, port_mapping, p), c1 \o <<Ok("run")>>,
                                  Some(EngineId(e.nextId)))

\* Mutant: a run refused for a port taken meanwhile removes the volume again.
CreatePath_RefusedRunCleansUp(e, name, port_mapping, p, f, pre) ==
    IF BadPorts(e, port_mapping) # {}
    THEN Raise(e, pre \o <<Call("bind", 1, {"Address already in use"})>>,
               <<"ports in use", BadPorts(e, port_mapping)>>)
    ELSE LET img == _docker_images_has(e, p.image, f)
             c1 == pre \o <<Ok("bind")>> \o img.calls
         IN  IF ~img.ok THEN Raise(img.e, c1, <<"image unavailable", p.image>>)
             ELSE IF "volume" \in f
                  THEN Raise(img.e, c1 \o <<Down("volume create")>>, <<"engine">>)
             ELSE LET e2 == [img.e EXCEPT !.volumes = @ \cup {WorkVolume(name)}]
                      c2 == c1 \o <<Ok("volume create")>>
                  IN  IF "run" \in f THEN Raise(e2, c2 \o <<Down("run")>>, <<"engine">>)
                      ELSE IF RaceBinds(port_mapping, f) # {}
                           THEN Raise([img.e EXCEPT !.bound = @ \cup RaceBinds(port_mapping, f)],
                                      c2 \o <<RunRefused, Ok("volume rm")>>, <<"engine">>)
                      ELSE IF e.nextId > MaxInstances
                           THEN [Raise(e2, c2, <<"engine">>) EXCEPT !.capped = TRUE]
                      ELSE Return(EngineRun(e2, name, port_mapping, p), c2 \o <<Ok("run")>>,
                                  Some(EngineId(e.nextId)))

\* The create path shared by start and start_with_port_mapping, after the
\* running / exists checks: port check, image, volume, run.
CreatePath(e, name, port_mapping, p, f, pre) ==
    IF BadPorts(e, port_mapping) # {}
    THEN Raise(e, pre \o <<Call("bind", 1, {"Address already in use"})>>,
               <<"ports in use", BadPorts(e, port_mapping)>>)
    ELSE LET img == _docker_images_has(e, p.image, f)
             c1 == pre \o <<Ok("bind")>> \o img.calls
         IN  IF ~img.ok THEN Raise(img.e, c1, <<"image unavailable", p.image>>)
             ELSE IF "volume" \in f
                  THEN Raise(img.e, c1 \o <<Down("volume create")>>, <<"engine">>)
             ELSE LET e2 == [img.e EXCEPT !.volumes = @ \cup {WorkVolume(name)}]
                      c2 == c1 \o <<Ok("volume create")>>
                  IN  IF "run" \in f THEN Raise(e2, c2 \o <<Down("run")>>, <<"engine">>)
                      ELSE IF RaceBinds(port_mapping, f) # {}
                           THEN Raise([e2 EXCEPT !.bound = @ \cup RaceBinds(port_mapping, f)],
                                      c2 \o <<RunRefused>>, <<"engine">>)
                      ELSE IF e.nextId > MaxInstances
                           THEN [Raise(e2, c2, <<"engine">>) EXCEPT !.capped = TRUE]
                      ELSE Return(EngineRun(e2, name, port_mapping, p), c2 \o <<Ok("run")>>,
                                  Some(EngineId(e.nextId)))

\* Mutant: the running check is missing.
start_with_port_mapping_NoRunningCheck(e, name, port_mapping, p, f) ==
    IF "ps" \in f THEN Raise(e, <<Down("ps")>>, <<"engine">>)
    ELSE IF _exists(e, name)
         THEN IF EngineStartFails(e, name, f)
              THEN Raise(e, <<Ok("ps"), Ok("ps -a"), StartRefused(e, name, f)>>, <<"engine">>)
              ELSE Return(EngineStart(e, name), <<Ok("ps"), Ok("ps -a"), Ok("start")>>, None)
    ELSE CreatePath(e, name, port_mapping, p, f, <<Ok("ps"), Ok("ps -a")>>)

\* Mutant: resuming a stopped instance applies the parameters of this start.
start_with_port_mapping_Reapply(e, name, port_mapping, p, f) ==
    IF "ps" \in f THEN Raise(e, <<Down("ps")>>, <<"engine">>)
    ELSE IF _running(e, name) THEN Return(e, <<Ok("ps")>>, None)
    ELSE IF _exists(e, name)
         THEN IF EngineStartFails(e, name, f)
              THEN Raise(e, <<Ok("ps"), Ok("ps -a"), StartRefused(e, name, f)>>, <<"engine">>)
              ELSE Return([e EXCEPT !.containers =
                              {IF c.name = name
                               THEN [c EXCEPT !.running = TRUE, !.ports = port_mapping,
                                              !.memory = p.memory_gb,
                                              !.shm = p.shm_size_gb]
                               ELSE c : c \in e.containers}],
                          <<Ok("ps"), Ok("ps -a"), Ok("start")>>, None)
    ELSE CreatePath(e, name, port_mapping, p, f, <<Ok("ps"), Ok("ps -a")>>)

\* Mutant: only the first entry of the table is published.
start_with_port_mapping_FirstEntryOnly(e, name, port_mapping, p, f) ==
    IF "ps" \in f THEN Raise(e, <<Down("ps")>>, <<"engine">>)
    ELSE IF _running(e, name) THEN Return(e, <<Ok("ps")>>, None)
    ELSE IF _exists(e, name)
         THEN IF EngineStartFails(e, name, f)
              THEN Raise(e, <<Ok("ps"), Ok("ps -a"), StartRefused(e, name, f)>>, <<"engine">>)
              ELSE Return(EngineStart(e, name), <<Ok("ps"), Ok("ps -a"), Ok("start")>>, None)
    ELSE CreatePath(e, name, <<port_mapping[1]>>, p, f, <<Ok("ps"), Ok("ps -a")>>)

start_with_port_mapping(e, name, port_mapping, p, f) ==
    IF "ps" \in f THEN Raise(e, <<Down("ps")>>, <<"engine">>)
    ELSE IF _running(e, name) THEN Return(e, <<Ok("ps")>>, None)
    ELSE IF _exists(e, name)
         THEN IF EngineStartFails(e, name, f)
              THEN Raise(e, <<Ok("ps"), Ok("ps -a"), StartRefused(e, name, f)>>, <<"engine">>)
              ELSE Return(EngineStart(e, name), <<Ok("ps"), Ok("ps -a"), Ok("start")>>, None)
    ELSE CreatePath(e, name, port_mapping, p, f, <<Ok("ps"), Ok("ps -a")>>)

\* Mutant: the legacy start publishes and checks the SSH port only.
start_SshPortOnly(e, name, ssh_port, jup_port, p, f) ==
    IF "ps" \in f THEN Raise(e, <<Down("ps")>>, <<"engine">>)
    ELSE IF _running(e, name) THEN Return(e, <<Ok("ps")>>, None)
    ELSE IF _exists(e, name)
         THEN IF EngineStartFails(e, name, f)
              THEN Raise(e, <<Ok("ps"), Ok("ps -a"), StartRefused(e, name, f)>>, <<"engine">>)
              ELSE Return(EngineStart(e, name), <<Ok("ps"), Ok("ps -a"), Ok("start")>>, None)
    ELSE CreatePath(e, name, << <<ssh_port, 22>> >>, p, f, <<Ok("ps"), Ok("ps -a")>>)

\* Legacy mode: exactly ssh_port -> 22 and jup_port -> 8888, both checked by
\* _assert_ports_free.
start(e, name, ssh_port, jup_port, p, f) ==
    IF "ps" \in f THEN Raise(e, <<Down("ps")>>, <<"engine">>)
    ELSE IF _running(e, name) THEN Return(e, <<Ok("ps")>>, None)
    ELSE IF _exists(e, name)
         THEN IF EngineStartFails(e, name, f)
              THEN Raise(e, <<Ok("ps"), Ok("ps -a"), StartRefused(e, name, f)>>, <<"engine">>)
              ELSE Return(EngineStart(e, name), <<Ok("ps"), Ok("ps -a"), Ok("start")>>, None)
    ELSE CreatePath(e, name, << <<ssh_port, 22>>, <<jup_port, 8888>> >>, p, f,
                    <<Ok("ps"), Ok("ps -a")>>)

\* `phrase in err_out`
Contains(out, phrase) == phrase \in out

\* Mutant: "is not running" is not taken for success.
stop_by_id_NotRunningIsError(e, container_id, f) ==
    IF "stop_exc" \in f
    THEN [e |-> e, ret |-> FALSE, calls |-> <<Call("stop", -1, {})>>]
    ELSE LET cp == EngineStop(e, container_id, f)
         IN  [e |-> cp.e,
              ret |-> cp.rc = 0 \/ Contains(cp.out, "No such container"),
              calls |-> <<Call("stop", cp.rc, cp.out)>>]

stop_by_id(e, container_id, f) ==
    IF "stop_exc" \in f
    THEN [e |-> e, ret |-> FALSE, calls |-> <<Call("stop", -1, {})>>]
    ELSE LET cp == EngineStop(e, container_id, f)
         IN  [e |-> cp.e,
              ret |-> \/ cp.rc = 0
                      \/ Contains(cp.out, "No such container")
                      \/ Contains(cp.out, "is not running"),
              calls |-> <<Call("stop", cp.rc, cp.out)>>]

\* Mutant: the refusal to remove a running instance is taken for success.
remove_by_id_RunningIsRemoved(e, container_id, f) ==
    IF "rm_exc" \in f
    THEN [e |-> e, ret |-> FALSE, calls |-> <<Call("rm", -1, {})>>]
    ELSE LET cp == EngineRm(e, container_id, f)
         IN  [e |-> cp.e,
              ret |-> \/ cp.rc = 0
                      \/ Contains(cp.out, "No such container")
                      \/ Contains(cp.out, "cannot remove a running container"),
              calls |-> <<Call("rm", cp.rc, cp.out)>>]

\* Mutant: "No such container" is not taken for success.
remove_by_id_AbsentIsError(e, container_id, f) ==
    IF "rm_exc" \in f
    THEN [e |-> e, ret |-> FALSE, calls |-> <<Call("rm", -1, {})>>]
    ELSE LET cp == EngineRm(e, container_id, f)
         IN  [e |-> cp.e, ret |-> cp.rc = 0, calls |-> <<Call("rm", cp.rc, cp.out)>>]

remove_by_id(e, container_id, f) ==
    IF "rm_exc" \in f
    THEN [e |-> e, ret |-> FALSE, calls |-> <<Call("rm", -1, {})>>]
    ELSE LET cp == EngineRm(e, container_id, f)
         IN  [e |-> cp.e,
              ret |-> cp.rc = 0 \/ Contains(cp.out, "No such container"),
              calls |-> <<Call("rm", cp.rc, cp.out)>>]

\* ------------------------------------------------------ Agent.process_task
\* A raw ram_allocated_gb is None, <<"int", n>> or <<"bad">> (int() raises).
ParseInt(raw) == IF raw # None /\ raw[1] = "int" THEN Some(raw[2]) ELSE None

Max(a, b) == IF a >= b THEN a ELSE b

\* Mutant: the shared memory is the half of the memory, without the floor of 1.
ShmSize_NoFloor(memory_gb) ==
    IF memory_gb # None /\ Val(memory_gb) > 0
    THEN Some(Val(memory_gb) \div 2)
    ELSE None

\* shm-size: max(1, int(memory_gb / 2)) when memory is set and positive.
ShmSize(memory_gb) ==
    IF memory_gb # None /\ Val(memory_gb) > 0
    THEN Some(Max(1, Val(memory_gb) \div 2))
    ELSE None

\* A raw list field is None, <<"list", items>> or <<"other">> (a value that
\* is not a list); `x or []` followed by isinstance(x, list) and len(x) > 0.
IsList(raw) == raw # None /\ raw[1] = "list"
Items(raw) == IF IsList(raw) THEN raw[2] ELSE <<>>
List(items) == <<"list", items>>

\* sep.join(strs)
RECURSIVE Join(_, _)
Join(strs, sep) ==
    IF Len(strs) = 0 THEN ""
    ELSE IF Len(strs) = 1 THEN strs[1]
    ELSE strs[1] \o sep \o Join(Tail(strs), sep)

\* gpus_param: gpu_required is None or <<"int", n>> (`or 0`, then tested for
\* truth); an index that int() rejects turns the selector into "all".
GpusParam(gpu_required, gpu_indices) ==
    LET required == IF gpu_required = None THEN 0 ELSE gpu_required[2]
        indices == Items(gpu_indices)
    IN  IF required # 0 /\ Len(indices) > 0
        THEN IF \E i \in 1..Len(indices) : ParseInt(indices[i]) = None
             THEN Some("all")
             ELSE Some(Join([i \in 1..Len(indices) |-> ToString(Val(ParseInt(indices[i])))], ","))
        ELSE IF required # 0 THEN Some("all")
        ELSE None

\* A raw range is <<"pair", a, b>> (a list or tuple of two raw values) or
\* <<"scalar">> (anything else).
IsPair(r) == r[1] = "pair"
RangeStr(r) == ToString(Val(ParseInt(r[2]))) \o "-" \o ToString(Val(ParseInt(r[3])))

\* cpuset_cpus: the loop skips what is not a pair; an int() that raises on a
\* pair leaves the loop through the except clause, which unsets the whole.
CpusetCpus(cpu_allocated_ranges) ==
    LET pairs == SelectSeq(Items(cpu_allocated_ranges), IsPair)
    IN  IF \E i \in 1..Len(pairs) : ParseInt(pairs[i][2]) = None \/ ParseInt(pairs[i][3]) = None
        THEN None
        ELSE IF Len(pairs) = 0 THEN None
        ELSE Some(Join([i \in 1..Len(pairs) |-> RangeStr(pairs[i])], ","))

\* Python truthiness of an optional string, and `a or b`.
Falsy(a) == a = None \/ a = Some("")
Or(a, b) == IF ~Falsy(a) THEN a ELSE b

\* Mutant: the result carries the container port of the SSH entry.
SshPortOf_ContainerPort(port_mapping) ==
    LET hits == {i \in 1..Len(port_mapping) : port_mapping[i][2] = 22}
    IN  IF hits = {} THEN None
        ELSE Some(port_mapping[CHOOSE i \in hits : \A j \in hits : i <= j][2])

\* Mutant: without an SSH entry the first entry's host port is reported.
SshPortOf_FirstEntry(port_mapping) ==
    LET hits == {i \in 1..Len(port_mapping) : port_mapping[i][2] = 22}
    IN  IF hits = {} THEN Some(port_mapping[1][1])
        ELSE Some(port_mapping[CHOOSE i \in hits : \A j \in hits : i <= j][1])

\* ssh_command of a result, for a task that supplies neither ssh_command nor
\* ssh_host: the default f"ssh root@{ssh_host} -p {ssh_port}", or None when
\* no SSH port is known.
SshCommand(ssh_port) ==
    IF ssh_port = None THEN None
    ELSE Some("ssh root@None -p " \o ToString(Val(ssh_port)))

\* Host port of the first table entry whose container port is 22.
SshPortOf(port_mapping) ==
    LET hits == {i \in 1..Len(port_mapping) : port_mapping[i][2] = 22}
    IN  IF hits = {} THEN None
        ELSE Some(port_mapping[CHOOSE i \in hits : \A j \in hits : i <= j][1])

\* ------------------------------------------------ the operation of a task
\* An operation value is a sequence of characters, or None when the task has
\* no operation key.
Whitespace == {" ", "\t", "\n", "\r"}
UpperCase == <<"A", "B", "C", "D", "E", "F", "G", "H", "I", "J", "K", "L", "M",
               "N", "O", "P", "Q", "R", "S", "T", "U", "V", "W", "X", "Y", "Z">>
LowerCase == <<"a", "b", "c", "d", "e", "f", "g", "h", "i", "j", "k", "l", "m",
               "n", "o", "p", "q", "r", "s", "t", "u", "v", "w", "x", "y", "z">>

\* str.strip(): whitespace is dropped from both ends only.
RECURSIVE LStrip(_)
LStrip(cs) == IF cs # <<>> /\ Head(cs) \in Whitespace THEN LStrip(Tail(cs)) ELSE cs
RECURSIVE RStrip(_)
RStrip(cs) ==
    IF cs # <<>> /\ cs[Len(cs)] \in Whitespace THEN RStrip(SubSeq(cs, 1, Len(cs) - 1)) ELSE cs
Strip(cs) == RStrip(LStrip(cs))

\* str.lower(): upper-case letters are replaced, everything else is kept.
LowerChar(c) ==
    IF \E i \in 1..Len(UpperCase) : UpperCase[i] = c
    THEN LowerCase[CHOOSE i \in 1..Len(UpperCase) : UpperCase[i] = c]
    ELSE c
Lower(cs) == [i \in 1..Len(cs) |-> LowerChar(cs[i])]

RECURSIVE Str(_)
Str(cs) == IF cs = <<>> THEN "" ELSE Head(cs) \o Str(Tail(cs))

\* The operation values of the tasks below.
op_start == <<"s", "t", "a", "r", "t">>
op_stop == <<"s", "t", "o", "p">>
op_stop_remove == <<"s", "t", "o", "p", "_", "r", "e", "m", "o", "v", "e">>
op_empty == <<>>
op_restart == <<"r", "e", "s", "t", "a", "r", "t">>
op_STOP_padded == <<" ", "S", "T", "O", "P", " ">>
op_Stop_Remove_nl == <<"S", "t", "o", "p", "_", "R", "e", "m", "o", "v", "e", "\n">>
RawOperations ==
    {op_start, op_stop, op_stop_remove, op_empty, op_restart, op_STOP_padded, op_Stop_Remove_nl}

\* .strip().lower() of every operation value, computed once.
Normalized == [cs \in RawOperations |-> Str(Lower(Strip(cs)))]
AsReceived == [cs \in RawOperations |-> Str(cs)]

\* Mutant: the operation is compared as received.
Operation_AsReceived(t) == AsReceived[IF t.operation = None THEN op_empty ELSE Val(t.operation)]

\* (task_data.get('operation') or '').strip().lower()
Operation(t) == Normalized[IF t.operation = None THEN op_empty ELSE Val(t.operation)]

Done(e, calls_, res, raised) ==
    [e |-> e, result |-> res, calls |-> calls_, raised |-> raised, capped |-> FALSE]

\* Mutant: a control task without container_id is dropped without a result.
ControlPath_MissingIdDropped(e, t, f) ==
    LET container_id == Or(t.td_container_id, t.ci_container_id)
    IN  IF Falsy(container_id)
        THEN Done(e, <<>>, None, None)
        ELSE LET st == stop_by_id(e, Val(container_id), f)
                 rm == IF Operation(t) = "stop_remove"
                       THEN remove_by_id(st.e, Val(container_id), f)
                       ELSE [e |-> st.e, ret |-> TRUE, calls |-> <<>>]
                 err == (IF ~st.ret THEN <<"stop failed">> ELSE <<>>)
                        \o (IF Operation(t) = "stop_remove" /\ ~rm.ret
                            THEN <<"remove failed">> ELSE <<>>)
             IN  Done(rm.e, st.calls \o rm.calls,
                      Some([status |-> IF st.ret /\ rm.ret THEN "completed" ELSE "failed",
                            container_id |-> container_id,
                            container_name |-> None, ssh_port |-> None,
                            error_message |-> IF st.ret /\ rm.ret THEN None ELSE Some(err)]),
                      None)

\* Mutant: the remove step is skipped when the stop step failed.
ControlPath_ShortCircuit(e, t, f) ==
    LET container_id == Or(t.td_container_id, t.ci_container_id)
    IN  IF Falsy(container_id)
        THEN Done(e, <<>>, Some([status |-> "failed", container_id |-> Some(""),
                                 container_name |-> None, ssh_port |-> None,
                                 error_message |-> Some(<<"Missing container_id in control task">>)]),
                  None)
        ELSE LET st == stop_by_id(e, Val(container_id), f)
                 rm == IF Operation(t) = "stop_remove" /\ st.ret
                       THEN remove_by_id(st.e, Val(container_id), f)
                       ELSE [e |-> st.e, ret |-> st.ret, calls |-> <<>>]
                 err == (IF ~st.ret THEN <<"stop failed">> ELSE <<>>)
                        \o (IF Operation(t) = "stop_remove" /\ ~rm.ret
                            THEN <<"remove failed">> ELSE <<>>)
             IN  Done(rm.e, st.calls \o rm.calls,
                      Some([status |-> IF st.ret /\ rm.ret THEN "completed" ELSE "failed",
                            container_id |-> container_id,
                            container_name |-> None, ssh_port |-> None,
                            error_message |-> IF st.ret /\ rm.ret THEN None ELSE Some(err)]),
                      None)

\* Mutant: the error message names the first failed step only.
ControlPath_FirstFailureOnly(e, t, f) ==
    LET container_id == Or(t.td_container_id, t.ci_container_id)
    IN  IF Falsy(container_id)
        THEN Done(e, <<>>, Some([status |-> "failed", container_id |-> Some(""),
                                 container_name |-> None, ssh_port |-> None,
                                 error_message |-> Some(<<"Missing container_id in control task">>)]),
                  None)
        ELSE LET st == stop_by_id(e, Val(container_id), f)
                 rm == IF Operation(t) = "stop_remove"
                       THEN remove_by_id(st.e, Val(container_id), f)
                       ELSE [e |-> st.e, ret |-> TRUE, calls |-> <<>>]
                 err == IF ~st.ret THEN <<"stop failed">> ELSE <<"remove failed">>
             IN  Done(rm.e, st.calls \o rm.calls,
                      Some([status |-> IF st.ret /\ rm.ret THEN "completed" ELSE "failed",
                            container_id |-> container_id,
                            container_name |-> None, ssh_port |-> None,
                            error_message |-> IF st.ret /\ rm.ret THEN None ELSE Some(err)]),
                      None)

ControlPath(e, t, f) ==
    LET container_id == Or(t.td_container_id, t.ci_container_id)
    IN  IF Falsy(container_id)
        THEN Done(e, <<>>, Some([status |-> "failed", container_id |-> Some(""),
                                 container_name |-> None, ssh_port |-> None,
                                 error_message |-> Some(<<"Missing container_id in control task">>)]),
                  None)
        ELSE LET st == stop_by_id(e, Val(container_id), f)
                 rm == IF Operation(t) = "stop_remove"
                       THEN remove_by_id(st.e, Val(container_id), f)
                       ELSE [e |-> st.e, ret |-> TRUE, calls |-> <<>>]
                 err == (IF ~st.ret THEN <<"stop failed">> ELSE <<>>)
                        \o (IF Operation(t) = "stop_remove" /\ ~rm.ret
                            THEN <<"remove failed">> ELSE <<>>)
             IN  Done(rm.e, st.calls \o rm.calls,
                      Some([status |-> IF st.ret /\ rm.ret THEN "completed" ELSE "failed",
                            container_id |-> container_id,
                            container_name |-> None, ssh_port |-> None,
                            error_message |-> IF st.ret /\ rm.ret THEN None ELSE Some(err)]),
                      None)

\* Mutant: an exception of the start is answered with a failed result.
StartResult_ReportsFailed(out, container_name, ssh_port, allocated) ==
    IF out.raised # None
    THEN [Done(out.e, out.calls,
               Some([status |-> "failed", container_id |-> None,
                     container_name |-> Some(container_name), ssh_port |-> ssh_port,
                     ssh_command |-> SshCommand(ssh_port),
                     error_message |-> Some(<<"start failed">>),
                     allocated_resources |-> allocated]),
               out.raised) EXCEPT !.capped = out.capped]
    ELSE Done(out.e, out.calls,
              Some([status |-> "running", container_id |-> out.ret,
                    container_name |-> Some(container_name), ssh_port |-> ssh_port,
                    ssh_command |-> SshCommand(ssh_port),
                    error_message |-> None, allocated_resources |-> allocated]),
              None)

StartResult(out, container_name, ssh_port, allocated) ==
    IF out.raised # None
    THEN [Done(out.e, out.calls, None, out.raised) EXCEPT !.capped = out.capped]
    ELSE Done(out.e, out.calls,
              Some([status |-> "running", container_id |-> out.ret,
                    container_name |-> Some(container_name), ssh_port |-> ssh_port,
                    ssh_command |-> SshCommand(ssh_port),
                    error_message |-> None, allocated_resources |-> allocated]),
              None)

\* The provisioning path once the image is known: translation of the
\* resource request, credentials, then the controller's start.
Provision(e, t, f, docker_image) ==
    LET gpus_param == GpusParam(t.gpu_required, t.gpu_enabled_indices)
        cpuset_cpus == CpusetCpus(t.cpu_allocated_ranges)
        memory_gb == ParseInt(t.ram_allocated_gb)
        p == [image |-> docker_image, memory_gb |-> memory_gb,
              memory_swap_gb |-> memory_gb,
              shm_size_gb |-> ShmSize(memory_gb),
              gpus |-> gpus_param, cpuset_cpus |-> cpuset_cpus]
        allocated == [cpu_cpuset |-> cpuset_cpus, ram_gb |-> memory_gb,
                      gpu_devices |-> gpus_param,
                      gpu_support |-> ~(gpus_param = None \/ gpus_param = Some(""))]
        container_name == ContainerName(t.id)
    IN  IF t.port_mapping # None /\ Len(Val(t.port_mapping)) > 0
        THEN IF t.ssh_password = None THEN Done(e, <<>>, None, None)
             ELSE StartResult(
                     start_with_port_mapping(e, container_name, Val(t.port_mapping), p, f),
                     container_name, SshPortOf(Val(t.port_mapping)), allocated)
        ELSE IF t.ssh_password = None \/ t.ssh_port = None THEN Done(e, <<>>, None, None)
             ELSE StartResult(
                     start(e, container_name, Val(t.ssh_port), Val(t.ssh_port) + 1, p, f),
                     container_name, t.ssh_port, allocated)

\* Mutant: a task without docker_image is started from the default image.
ProvisionPath_DefaultImage(e, t, f) ==
    Provision(e, t, f, IF t.docker_image = None THEN "x" ELSE Val(t.docker_image))

ProvisionPath(e, t, f) ==
    IF t.docker_image = None THEN Done(e, <<>>, None, None)
    ELSE Provision(e, t, f, Val(t.docker_image))

process_task(e, t, f) ==
    IF Operation(t) \in {"stop", "stop_remove"}
    THEN ControlPath(e, t, f)
    ELSE ProvisionPath(e, t, f)

\* ---------------------------------------------------------------- inputs
StartTask(id, image, ram, pm, port, pw) ==
    [id |-> id, operation |-> Some(op_start), td_container_id |-> None, ci_container_id |-> None,
     docker_image |-> image, ram_allocated_gb |-> ram, port_mapping |-> pm,
     ssh_port |-> port, ssh_password |-> pw,
     gpu_required |-> None, gpu_enabled_indices |-> None, cpu_allocated_ranges |-> None]

ControlTask(id, op, td_cid, ci_cid) ==
    [id |-> id, operation |-> Some(op), td_container_id |-> td_cid, ci_container_id |-> ci_cid,
     docker_image |-> None, ram_allocated_gb |-> None, port_mapping |-> None,
     ssh_port |-> None, ssh_password |-> None,
     gpu_required |-> None, gpu_enabled_indices |-> None, cpu_allocated_ranges |-> None]

\* A base start task and the tasks that differ from it in one part.
BaseTask(id) == StartTask(id, Some("x"), <<"int", 8>>, Some(PM_A), None, Some("p"))

StartTasks ==
    {BaseTask(id) : id \in TaskIds}
    \cup {StartTask(id, Some("x"), <<"int", 8>>, Some(PM_B), None, Some("p")) : id \in TaskIds}
    \cup {StartTask(1, Some("x"), <<"int", 8>>, None, Some(5000), Some("p")),
          StartTask(1, Some("x"), <<"int", 8>>, None, None, Some("p")),
          StartTask(1, Some("x"), <<"int", 8>>, None, Some(5000), None),
          StartTask(1, Some("x"), <<"int", 8>>, Some(PM_A), None, None),
          StartTask(1, Some("x"), None, Some(PM_B), None, Some("p")),
          StartTask(1, Some("x"), None, Some(PM_C), None, Some("p")),
          StartTask(1, Some("y"), <<"int", 8>>, Some(PM_A), None, Some("p")),
          StartTask(1, None, <<"int", 8>>, Some(PM_A), None, Some("p"))}

Identifiers == {ContainerName(i) : i \in TaskIds} \cup {EngineId(n) : n \in 1..MaxInstances}

ControlTasks ==
    {ControlTask(1, op, None, None) : op \in {op_stop, op_stop_remove}}
    \cup {ControlTask(1, op, Some(c), None) : op \in {op_stop, op_stop_remove}, c \in Identifiers}
    \cup {ControlTask(1, op_stop, None, Some(ContainerName(1)))}

\* Tasks whose operation is not one of the three plain names: a start
\* without operation, with an empty one and with an unknown one, and control
\* tasks in other spellings that carry everything a start needs.
OperationTasks ==
    {[BaseTask(1) EXCEPT !.operation = None],
     [BaseTask(1) EXCEPT !.operation = Some(op_empty)],
     [BaseTask(1) EXCEPT !.operation = Some(op_restart)],
     [BaseTask(1) EXCEPT !.operation = Some(op_STOP_padded),
                         !.td_container_id = Some(ContainerName(1))],
     [BaseTask(1) EXCEPT !.operation = Some(op_Stop_Remove_nl),
                         !.td_container_id = Some(ContainerName(1))]}

Tasks == StartTasks \cup ControlTasks

\* The tasks of the backoff specification: one of each way a cycle can end.
LoopTasks ==
    {BaseTask(1),
     StartTask(1, None, <<"int", 8>>, Some(PM_A), None, Some("p")),
     ControlTask(1, op_stop, Some(ContainerName(1)), None),
     ControlTask(1, op_stop_remove, Some(ContainerName(1)), None),
     ControlTask(1, op_stop_remove, None, None)}

\* The tasks of the fair specification: a bare start, a start, a stop and a
\* control task without container id.
LiveTasks ==
    {BaseTask(1),
     StartTask(1, None, <<"int", 8>>, Some(PM_A), None, Some("p")),
     ControlTask(1, op_stop, Some(ContainerName(1)), None),
     ControlTask(1, op_stop_remove, None, None)}

\* Resource requests of the translation specification: every combination of
\* the raw values below on the base task.
RawRams == {None, <<"bad">>} \cup {<<"int", n>> : n \in -1..MaxRam}
RawGpuRequired == {None} \cup {<<"int", n>> : n \in -1..MaxGpus}
RawIndexLists ==
    {None, <<"other">>, List(<<>>),
     List(<< <<"int", 0>> >>),
     List(<< <<"int", 0>>, <<"int", 1>> >>),
     List(<< <<"int", 1>>, <<"int", 0>> >>),
     List(<< <<"int", 0>>, <<"bad">> >>)}
Pair(a, b) == <<"pair", <<"int", a>>, <<"int", b>> >>
BadPair == <<"pair", <<"bad">>, <<"int", 1>> >>
RawRangeLists ==
    {None, <<"other">>, List(<<>>),
     List(<<Pair(0, 3)>>),
     List(<<Pair(0, 3), Pair(8, 11)>>),
     List(<<Pair(8, 11), Pair(0, 3)>>),
     List(<<Pair(0, 3), <<"scalar">> >>),
     List(<< <<"scalar">> >>),
     List(<<Pair(0, 3), BadPair>>),
     List(<<BadPair>>)}

TranslateTasks ==
    {[BaseTask(1) EXCEPT !.ram_allocated_gb = ram, !.gpu_required = gpu,
                         !.gpu_enabled_indices = indices, !.cpu_allocated_ranges = ranges]
        : ram \in RawRams, gpu \in RawGpuRequired,
          indices \in RawIndexLists, ranges \in RawRangeLists}

\* ------------------------------------------------- APIClient.poll_for_tasks
\* The sleep chosen at the end of a cycle.
SleepInterval(errors) == IF errors >= max_consecutive_errors THEN 60 ELSE 10

\* Failed cycles that fall through to the interval choice: status other than
\* 200, requests Timeout, ConnectionError, any other exception, and a task id
\* without task_data or container_info.
FailureKinds == {"non200", "timeout", "connection", "error", "invalid"}

\* What the status endpoint may answer.
StatusReplies == {"ok", "exception", "non200", "raise"}

\* send_task_status: the body posted and the value returned.
send_task_status(task_id, container_info, reply) ==
    [data |-> [task_id |-> task_id,
               status |-> container_info.status,
               container_id |-> container_info.container_id,
               container_name |-> container_info.container_name,
               error_message |-> IF container_info.status = "failed"
                                 THEN container_info.error_message ELSE None],
     ret |-> reply = "ok"]

\* The initialization of an agent that loaded its token and met no problem.
CleanStart == <<"docker ok", "permissions ok", "gpu ok", "init report ok", "polling started">>

NoHistory ==
    /\ task' = None
    /\ result' = None
    /\ calls' = <<>>
    /\ report' = None
    /\ caught' = None

Init ==
    /\ containers = {}
    /\ volumes = {}
    /\ images = {"x"}
    /\ nextId = 1
    /\ bound = {}
    /\ pc = "pull"
    /\ consecutive_errors = 0
    /\ wait = 0
    /\ task = None
    /\ result = None
    /\ calls = <<>>
    /\ report = None
    /\ cycle = "none"
    /\ caught = None
    /\ main = "running"
    /\ heartbeat_counter = 0
    /\ heartbeat = "none"
    /\ agent_id = Some("a0")
    /\ credential = Some("a0")
    /\ id_file = Some("a0")
    /\ init_log = CleanStart

\* 200 with exception != 0: count, sleep(10), continue.
PollException(cap) ==
    /\ main = "running"
    /\ pc = "pull"
    /\ consecutive_errors < cap
    /\ consecutive_errors' = consecutive_errors + 1
    /\ wait' = 10
    /\ cycle' = "exception"
    /\ NoHistory
    /\ UNCHANGED <<containers, volumes, images, nextId, bound, pc>>
    /\ UNCHANGED mainVars
    /\ UNCHANGED initVars

PollFailure(kind, cap) ==
    /\ main = "running"
    /\ pc = "pull"
    /\ consecutive_errors < cap
    /\ consecutive_errors' = consecutive_errors + 1
    /\ wait' = SleepInterval(consecutive_errors')
    /\ cycle' = kind
    /\ NoHistory
    /\ UNCHANGED <<containers, volumes, images, nextId, bound, pc>>
    /\ UNCHANGED mainVars
    /\ UNCHANGED initVars

\* Mutant: the no-task branch leaves the counter as it is.
PollNoTask_KeepsCount ==
    /\ main = "running"
    /\ pc = "pull"
    /\ consecutive_errors' = consecutive_errors
    /\ wait' = SleepInterval(consecutive_errors')
    /\ cycle' = "notask"
    /\ NoHistory
    /\ UNCHANGED <<containers, volumes, images, nextId, bound, pc>>
    /\ UNCHANGED mainVars
    /\ UNCHANGED initVars

\* 200, exception = 0, task_id absent.
PollNoTask ==
    /\ main = "running"
    /\ pc = "pull"
    /\ consecutive_errors' = 0
    /\ wait' = SleepInterval(consecutive_errors')
    /\ cycle' = "notask"
    /\ NoHistory
    /\ UNCHANGED <<containers, volumes, images, nextId, bound, pc>>
    /\ UNCHANGED mainVars
    /\ UNCHANGED initVars

\* Mutant: the next pull is issued while the callback is still running.
PollTask_WhileProcessing(t) ==
    /\ main = "running"
    /\ pc \in {"pull", "dispatch"}
    /\ pc' = "dispatch"
    /\ task' = Some(t)
    /\ result' = None
    /\ calls' = <<>>
    /\ report' = None
    /\ caught' = None
    /\ cycle' = "task"
    /\ UNCHANGED <<containers, volumes, images, nextId, bound, consecutive_errors, wait>>
    /\ UNCHANGED mainVars
    /\ UNCHANGED initVars

\* 200 with task_id, task_data and container_info: full_task is built.
PollTask(t) ==
    /\ main = "running"
    /\ pc = "pull"
    /\ pc' = "dispatch"
    /\ task' = Some(t)
    /\ result' = None
    /\ calls' = <<>>
    /\ report' = None
    /\ caught' = None
    /\ cycle' = "task"
    /\ UNCHANGED <<containers, volumes, images, nextId, bound, consecutive_errors, wait>>
    /\ UNCHANGED mainVars
    /\ UNCHANGED initVars

\* Mutant: a callback that yields no result ends the polling loop.
Dispatch_FailureEndsLoop(f, cap) ==
    /\ main = "running"
    /\ pc = "dispatch"
    /\ LET out == process_task(Engine, Val(task), f)
       IN  /\ ~out.capped
           /\ containers' = out.e.containers
           /\ volumes' = out.e.volumes
           /\ images' = out.e.images
           /\ nextId' = out.e.nextId
           /\ result' = out.result
           /\ calls' = out.calls
           /\ caught' = out.raised
           /\ bound' = out.e.bound
           /\ IF out.result # None
              THEN /\ pc' = "report"
                   /\ UNCHANGED <<consecutive_errors, wait, cycle>>
              ELSE /\ consecutive_errors < cap
                   /\ consecutive_errors' = consecutive_errors
                   /\ wait' = wait
                   /\ pc' = "off"
                   /\ cycle' = "process_failed"
    /\ UNCHANGED <<task, report>>
    /\ UNCHANGED mainVars
    /\ UNCHANGED initVars

\* result = callback(full_task), run in the polling thread; a falsy result
\* ends the cycle as a failure.
Dispatch(f, cap) ==
    /\ main = "running"
    /\ pc = "dispatch"
    /\ LET out == process_task(Engine, Val(task), f)
       IN  /\ ~out.capped
           /\ containers' = out.e.containers
           /\ volumes' = out.e.volumes
           /\ images' = out.e.images
           /\ nextId' = out.e.nextId
           /\ result' = out.result
           /\ calls' = out.calls
           /\ caught' = out.raised
           /\ bound' = out.e.bound
           /\ IF out.result # None
              THEN /\ pc' = "report"
                   /\ UNCHANGED <<consecutive_errors, wait, cycle>>
              ELSE /\ consecutive_errors < cap
                   /\ consecutive_errors' = consecutive_errors + 1
                   /\ wait' = SleepInterval(consecutive_errors')
                   /\ pc' = "pull"
                   /\ cycle' = "process_failed"
    /\ UNCHANGED <<task, report>>
    /\ UNCHANGED mainVars
    /\ UNCHANGED initVars

\* Mutant: a result of status failed is counted as a failed cycle.
Report_FailedStatusCounts(reply) ==
    /\ main = "running"
    /\ pc = "report"
    /\ LET sent == send_task_status(Val(task).id, Val(result), reply)
       IN  report' = Some([data |-> sent.data, ret |-> sent.ret])
    /\ consecutive_errors' = IF Val(result).status = "failed"
                             THEN consecutive_errors + 1 ELSE 0
    /\ wait' = SleepInterval(consecutive_errors')
    /\ pc' = "pull"
    /\ cycle' = "reported"
    /\ UNCHANGED <<containers, volumes, images, nextId, bound, task, result, calls, caught>>
    /\ UNCHANGED mainVars
    /\ UNCHANGED initVars

\* Mutant: a status report that failed is sent again.
Report_RetriesOnFailure(reply) ==
    /\ main = "running"
    /\ pc = "report"
    /\ LET sent == send_task_status(Val(task).id, Val(result), reply)
       IN  /\ report' = Some([data |-> sent.data, ret |-> sent.ret])
           /\ pc' = IF sent.ret THEN "pull" ELSE "report"
    /\ consecutive_errors' = 0
    /\ wait' = SleepInterval(consecutive_errors')
    /\ cycle' = "reported"
    /\ UNCHANGED <<containers, volumes, images, nextId, bound, task, result, calls, caught>>
    /\ UNCHANGED mainVars
    /\ UNCHANGED initVars

\* self.send_task_status(task_id, result); consecutive_errors = 0
Report(reply) ==
    /\ main = "running"
    /\ pc = "report"
    /\ LET sent == send_task_status(Val(task).id, Val(result), reply)
       IN  report' = Some([data |-> sent.data, ret |-> sent.ret])
    /\ consecutive_errors' = 0
    /\ wait' = SleepInterval(consecutive_errors')
    /\ pc' = "pull"
    /\ cycle' = "reported"
    /\ UNCHANGED <<containers, volumes, images, nextId, bound, task, result, calls, caught>>
    /\ UNCHANGED mainVars
    /\ UNCHANGED initVars

\* ------------------------------------------- Agent.initialize, Agent.run
Logged(event) == init_log' = Append(init_log, event)

\* check_and_install_docker: `docker ps` works; or it fails, docker is
\* installed and the permission repair succeeds; or the repair fails; or
\* docker is not installed.  The last two end initialize() with False.
DockerOutcomes == {"working", "repaired", "unrepaired", "not_installed"}

CheckDocker(outcome) ==
    /\ main = "check_docker"
    /\ IF outcome \in {"working", "repaired"}
       THEN /\ Logged("docker ok")
            /\ main' = "fix_permissions"
       ELSE /\ Logged("docker unavailable")
            /\ main' = "returned"
    /\ UNCHANGED <<agent_id, credential, id_file, heartbeat_counter, heartbeat>>
    /\ UNCHANGED <<containers, volumes, images, nextId, bound>>
    /\ UNCHANGED pollVars

\* fix_docker_permissions: a failure is a warning.
FixPermissions(ok) ==
    /\ main = "fix_permissions"
    /\ Logged(IF ok THEN "permissions ok" ELSE "permissions failed")
    /\ main' = "check_gpu"
    /\ UNCHANGED <<agent_id, credential, id_file, heartbeat_counter, heartbeat>>
    /\ UNCHANGED <<containers, volumes, images, nextId, bound>>
    /\ UNCHANGED pollVars

\* check_docker_gpu_support: no support is a warning; then the system data
\* are collected and `if not self.agent_id` chooses the identity exchange.
CheckGpu(ok) ==
    /\ main = "check_gpu"
    /\ Logged(IF ok THEN "gpu ok" ELSE "gpu unsupported")
    /\ main' = IF Falsy(agent_id) THEN "confirm" ELSE "send_init"
    /\ UNCHANGED <<agent_id, credential, id_file, heartbeat_counter, heartbeat>>
    /\ UNCHANGED <<containers, volumes, images, nextId, bound>>
    /\ UNCHANGED pollVars

\* confirm_agent returns a token, returns None (also on its own exceptions),
\* raises, or the token is returned and saving it raises: in open(), which
\* leaves AGENT_ID_FILE as it was, or in write(), which leaves it empty.
ConfirmReplies == {"token", "no_token", "exception", "save_raises", "write_raises"}

\* The token the control plane issues.
IssuedToken == "a1"

\* Mutant: the issued token is not written to AGENT_ID_FILE.
Confirm_NotPersisted(reply) ==
    /\ main = "confirm"
    /\ IF reply \in {"token", "save_raises", "write_raises"}
       THEN /\ agent_id' = Some(IssuedToken)
            /\ credential' = Some(IssuedToken)
            /\ id_file' = id_file
            /\ init_log' = init_log \o <<"confirm", "set_credentials", "save">>
            /\ main' = "send_init"
       ELSE /\ Logged("confirm failed")
            /\ main' = "returned"
            /\ UNCHANGED <<agent_id, credential, id_file>>
    /\ UNCHANGED <<heartbeat_counter, heartbeat>>
    /\ UNCHANGED <<containers, volumes, images, nextId, bound>>
    /\ UNCHANGED pollVars

\* First run: agent_id = confirm_agent(system_data); set_credentials;
\* _save_agent_id; anything else ends initialize() with False.
Confirm(reply) ==
    /\ main = "confirm"
    /\ IF reply = "token"
       THEN /\ agent_id' = Some(IssuedToken)
            /\ credential' = Some(IssuedToken)
            /\ id_file' = Some(IssuedToken)
            /\ init_log' = init_log \o <<"confirm", "set_credentials", "save">>
            /\ main' = "send_init"
       ELSE IF reply \in {"save_raises", "write_raises"}
       THEN /\ agent_id' = Some(IssuedToken)
            /\ credential' = Some(IssuedToken)
            /\ id_file' = IF reply = "write_raises" THEN Some("") ELSE id_file
            /\ init_log' = init_log \o <<"confirm", "set_credentials", "save failed">>
            /\ main' = "returned"
       ELSE /\ Logged("confirm failed")
            /\ main' = "returned"
            /\ UNCHANGED <<agent_id, credential, id_file>>
    /\ UNCHANGED <<heartbeat_counter, heartbeat>>
    /\ UNCHANGED <<containers, volumes, images, nextId, bound>>
    /\ UNCHANGED pollVars

\* What send_init_data may meet: True, False, or an exception.
InitReplies == {"ok", "false", "raise"}

\* Mutant: a failed initialization report ends initialize() with False.
SendInit_FailureIsFatal(reply) ==
    /\ main = "send_init"
    /\ Logged(IF reply = "ok" THEN "init report ok" ELSE "init report failed")
    /\ main' = IF reply = "ok" THEN "start_polling" ELSE "returned"
    /\ UNCHANGED <<agent_id, credential, id_file, heartbeat_counter, heartbeat>>
    /\ UNCHANGED <<containers, volumes, images, nextId, bound>>
    /\ UNCHANGED pollVars

\* send_init_data(system_data): a failure is logged and initialize() goes on
\* to return True.
SendInit(reply) ==
    /\ main = "send_init"
    /\ Logged(IF reply = "ok" THEN "init report ok" ELSE "init report failed")
    /\ main' = "start_polling"
    /\ UNCHANGED <<agent_id, credential, id_file, heartbeat_counter, heartbeat>>
    /\ UNCHANGED <<containers, volumes, images, nextId, bound>>
    /\ UNCHANGED pollVars

\* start_polling_thread: the daemon thread starts at its pull position and
\* run() enters the main loop; if starting the thread raises, run() returns.
StartPolling(ok) ==
    /\ main = "start_polling"
    /\ pc = "off"
    /\ IF ok
       THEN /\ Logged("polling started")
            /\ main' = "running"
            /\ pc' = "pull"
       ELSE /\ Logged("polling start failed")
            /\ main' = "returned"
            /\ pc' = pc
    /\ UNCHANGED <<agent_id, credential, id_file, heartbeat_counter, heartbeat>>
    /\ UNCHANGED <<containers, volumes, images, nextId, bound>>
    /\ UNCHANGED <<consecutive_errors, wait, task, result, calls, report, cycle, caught>>

\* ------------------------------------------------------------- Agent.run
\* What the heartbeat attempt of a tick may meet: the endpoint answers 200
\* with exception = 0, 200 with another exception value, another status, the
\* post raises, or collect_monitoring_data raises before anything is sent.
HeartbeatReplies == {"ok", "exception", "non200", "raise", "collect_raise"}

\* send_heartbeat: True only for 200 with exception = 0; it raises nothing.
send_heartbeat(reply) == reply = "ok"

\* Mutant: an exception of the heartbeat attempt leaves the main loop.
Tick_FailureStopsLoop(reply) ==
    /\ main = "running"
    /\ IF heartbeat_counter + 1 >= HeartbeatEvery
       THEN /\ heartbeat' = reply
            /\ heartbeat_counter' = 0
            /\ main' = IF reply \in {"raise", "collect_raise"} THEN "stopped" ELSE main
       ELSE /\ heartbeat' = "none"
            /\ heartbeat_counter' = heartbeat_counter + 1
            /\ main' = main
    /\ UNCHANGED <<containers, volumes, images, nextId, bound>>
    /\ UNCHANGED pollVars
    /\ UNCHANGED initVars

\* Mutant: the counter is reset only after a heartbeat that succeeded.
Tick_ResetOnSuccessOnly(reply) ==
    /\ main = "running"
    /\ IF heartbeat_counter + 1 >= HeartbeatEvery
       THEN /\ heartbeat' = reply
            /\ heartbeat_counter' = IF send_heartbeat(reply) THEN 0 ELSE heartbeat_counter + 1
       ELSE /\ heartbeat' = "none"
            /\ heartbeat_counter' = heartbeat_counter + 1
    /\ main' = main
    /\ UNCHANGED <<containers, volumes, images, nextId, bound>>
    /\ UNCHANGED pollVars
    /\ UNCHANGED initVars

\* One pass of the main loop: sleep(60), count, and on every fifth pass
\* collect the monitoring data and send the heartbeat, whatever comes of it.
Tick(reply) ==
    /\ main = "running"
    /\ IF heartbeat_counter + 1 >= HeartbeatEvery
       THEN /\ heartbeat' = reply
            /\ heartbeat_counter' = 0
       ELSE /\ heartbeat' = "none"
            /\ heartbeat_counter' = heartbeat_counter + 1
    /\ main' = main
    /\ UNCHANGED <<containers, volumes, images, nextId, bound>>
    /\ UNCHANGED pollVars
    /\ UNCHANGED initVars

\* KeyboardInterrupt: the main loop ends, the session is closed and the
\* process exits, taking the daemon polling thread with it.
Interrupt ==
    /\ main = "running"
    /\ main' = "stopped"
    /\ UNCHANGED <<containers, volumes, images, nextId, bound, heartbeat_counter, heartbeat>>
    /\ UNCHANGED pollVars
    /\ UNCHANGED initVars

\* ------------------------------------------------------------ environment
\* Another process binds or releases a host port.
ExternalBind(port) ==
    /\ port \notin bound
    /\ port \notin Published(Engine)
    /\ bound' = bound \cup {port}
    /\ UNCHANGED <<containers, volumes, images, nextId>>
    /\ UNCHANGED pollVars
    /\ UNCHANGED mainVars
    /\ UNCHANGED initVars

ExternalRelease(port) ==
    /\ port \in bound
    /\ bound' = bound \ {port}
    /\ UNCHANGED <<containers, volumes, images, nextId>>
    /\ UNCHANGED pollVars
    /\ UNCHANGED mainVars
    /\ UNCHANGED initVars

\* The agent over the task set `tasks`, consecutive_errors capped at `cap`.
NextOver(tasks, cap) ==
    \/ PollException(cap)
    \/ \E kind \in FailureKinds : PollFailure(kind, cap)
    \/ PollNoTask
    \/ \E t \in tasks : PollTask(t)
    \/ \E f \in Faults : Dispatch(f, cap)
    \/ \E reply \in StatusReplies : Report(reply)
    \/ \E port \in ExtPorts : ExternalBind(port)
    \/ \E port \in ExtPorts : ExternalRelease(port)

\* Every task shape, few consecutive failures: the controller and the processor.
Next == NextOver(Tasks, MaxErrorsEngine)

Spec == Init /\ [][Next]_vars

\* Few task shapes, failures past the threshold, and the main loop beside the
\* polling thread: the backoff policy and the heartbeat.
NextBackoff ==
    \/ NextOver(LoopTasks, MaxErrors)
    \/ \E reply \in HeartbeatReplies : Tick(reply)
    \/ Interrupt

SpecBackoff == Init /\ [][NextBackoff]_vars

\* A task is pulled only while the counter is below its cap, so that the
\* cap never keeps a failing callback from returning.
PollTaskBelow(t, cap) ==
    /\ consecutive_errors < cap
    /\ PollTask(t)

\* One `while True` iteration's request: the poll and its immediate outcome.
Poll(tasks, cap) ==
    \/ PollException(cap)
    \/ \E kind \in FailureKinds : PollFailure(kind, cap)
    \/ PollNoTask
    \/ \E t \in tasks : PollTaskBelow(t, cap)

NextLive ==
    \/ Poll(LiveTasks, MaxErrors)
    \/ \E f \in Faults : Dispatch(f, MaxErrors)
    \/ \E reply \in StatusReplies : Report(reply)
    \/ \E port \in ExtPorts : ExternalBind(port)
    \/ \E port \in ExtPorts : ExternalRelease(port)
    \/ \E reply \in HeartbeatReplies : Tick(reply)

\* The polling thread keeps running while the process lives: the sleep ends
\* and the poll request returns (timeout=15), the callback returns, and
\* send_task_status returns (timeout=10).
FairPolling ==
    /\ WF_vars(Poll(LiveTasks, MaxErrors))
    /\ WF_vars(\E f \in Faults : Dispatch(f, MaxErrors))
    /\ WF_vars(\E reply \in StatusReplies : Report(reply))

SpecLive == Init /\ [][NextLive]_vars /\ FairPolling

\* The agent as constructed: _load_agent_id has read AGENT_ID_FILE if it
\* exists (absent, empty, or the token of an earlier run) and set it as the
\* credential; nothing is initialized and no thread runs.
LoadedTokens == {None, Some(""), Some("a0")}

InitStartup ==
    /\ containers = {}
    /\ volumes = {}
    /\ images = {"x"}
    /\ nextId = 1
    /\ bound = {}
    /\ pc = "off"
    /\ consecutive_errors = 0
    /\ wait = 0
    /\ task = None
    /\ result = None
    /\ calls = <<>>
    /\ report = None
    /\ cycle = "none"
    /\ caught = None
    /\ main = "check_docker"
    /\ heartbeat_counter = 0
    /\ heartbeat = "none"
    /\ id_file \in LoadedTokens
    /\ agent_id = id_file
    /\ credential = id_file
    /\ init_log = <<>>

\* Initialization, then the main loop beside a polling thread that finds no
\* task.
NextStartup ==
    \/ \E outcome \in DockerOutcomes : CheckDocker(outcome)
    \/ \E ok \in BOOLEAN : FixPermissions(ok)
    \/ \E ok \in BOOLEAN : CheckGpu(ok)
    \/ \E reply \in ConfirmReplies : Confirm(reply)
    \/ \E reply \in InitReplies : SendInit(reply)
    \/ \E ok \in BOOLEAN : StartPolling(ok)
    \/ \E reply \in HeartbeatReplies : Tick(reply)
    \/ PollException(MaxErrorsEngine)
    \/ \E kind \in FailureKinds : PollFailure(kind, MaxErrorsEngine)
    \/ PollNoTask

SpecStartup == InitStartup /\ [][NextStartup]_vars

\* The callback entered with each resource request, on an engine that holds
\* nothing but the image: the translation of the request.
InitTranslate ==
    /\ containers = {}
    /\ volumes = {}
    /\ images = {"x"}
    /\ nextId = 1
    /\ bound = {}
    /\ pc = "dispatch"
    /\ consecutive_errors = 0
    /\ wait = 0
    /\ task \in {Some(t) : t \in TranslateTasks \cup OperationTasks}
    /\ result = None
    /\ calls = <<>>
    /\ report = None
    /\ cycle = "task"
    /\ caught = None
    /\ main = "running"
    /\ heartbeat_counter = 0
    /\ heartbeat = "none"
    /\ agent_id = Some("a0")
    /\ credential = Some("a0")
    /\ id_file = Some("a0")
    /\ init_log = CleanStart

NextTranslate ==
    \/ \E f \in Faults : Dispatch(f, MaxErrorsEngine)
    \/ \E reply \in StatusReplies : Report(reply)

SpecTranslate == InitTranslate /\ [][NextTranslate]_vars

\* ================================================================= claims
\* Helpers of the properties below.
ControlId(t) == Or(t.td_container_id, t.ci_container_id)
HasControlId(t) == ~Falsy(ControlId(t))
Designated(cs, ident) == {c \in cs : c.id = ident \/ c.name = ident}
StoppedOrAbsent(cs, ident) == \A c \in Designated(cs, ident) : ~c.running
InstanceOf(cs, name) == CHOOSE c \in cs : c.name = name
TaskName == ContainerName(Val(task).id)
\* The engine was unreachable or the invocation raised.
EngineFault(c) == c.rc = -1 \/ "Cannot connect to the Docker daemon" \in c.out
\* The callback has just returned from the task pulled in this cycle.
Dispatched == pc = "dispatch" /\ pc' # "dispatch"
\* The callback returned from a start that found its instance running.
ReplayedWhileRunning ==
    /\ pc = "report"
    /\ Operation(Val(task)) = "start"
    /\ Cmds(calls) = <<"ps">>
    /\ _running(Engine, TaskName)

\* C1: stopping by id succeeds from every engine state of the id (running,
\* stopped, absent) and fails exactly when the engine is unreachable or the
\* invocation raises; after a success no designated instance runs; a stop of
\* an id that is already stopped or absent changes no instance, so a second
\* stop succeeds again and leaves the state as the first left it.
C1_StopByIdIdempotent ==
    [][(Dispatched /\ Operation(Val(task)) = "stop" /\ HasControlId(Val(task))) =>
        LET ident == Val(ControlId(Val(task)))
            stop == calls'[1]
            ok == Val(result').status = "completed"
        IN  /\ Cmds(calls') = <<"stop">>
            /\ ok <=> ~EngineFault(stop)
            /\ ok => StoppedOrAbsent(containers', ident)
            /\ StoppedOrAbsent(containers, ident) => containers' = containers
            /\ ~ok => containers' = containers]_vars

\* C1 witness: a stop of an instance that was already stopped has succeeded.
C1_Witness ==
    /\ pc = "report"
    /\ Operation(Val(task)) = "stop"
    /\ HasControlId(Val(task))
    /\ Designated(containers, Val(ControlId(Val(task)))) # {}
    /\ "is not running" \in calls[1].out
    /\ Val(result).status = "completed"

\* C2: unless the engine is unreachable or the invocation raises, removing an
\* absent id succeeds and changes nothing, and removing a stopped instance
\* succeeds and leaves the id absent (so a second removal succeeds as well).
C2_RemoveByIdIdempotent ==
    [][(Dispatched /\ Operation(Val(task)) = "stop_remove" /\ HasControlId(Val(task))) =>
        LET ident == Val(ControlId(Val(task)))
            rm == calls'[2]
            removeOk == \/ Val(result').error_message = None
                        \/ "remove failed" \notin Range(Val(Val(result').error_message))
        IN  /\ Cmds(calls') = <<"stop", "rm">>
            /\ (Designated(containers, ident) = {} /\ ~EngineFault(rm))
                  => removeOk /\ containers' = containers
            /\ (Designated(containers, ident) # {} /\ StoppedOrAbsent(containers, ident)
                  /\ ~EngineFault(rm))
                  => removeOk /\ containers' = containers \ Designated(containers, ident)]_vars

\* C2 witness: a removal of a name whose instance had been created and removed
\* before has succeeded on the engine's "No such container".
C2_Witness ==
    /\ pc = "report"
    /\ Operation(Val(task)) = "stop_remove"
    /\ ControlId(Val(task)) = Some(ContainerName(1))
    /\ volumes = {WorkVolume(ContainerName(1))}
    /\ nextId = 2
    /\ containers = {}
    /\ "No such container" \in calls[2].out
    /\ Val(result).status = "completed"

\* C3: a start replayed while its instance runs returns the id of that
\* instance, and the result carries it as container_id.
C3_ReplayReturnsInstanceId ==
    ReplayedWhileRunning =>
        Val(result).container_id = Some(InstanceOf(containers, TaskName).id)

\* C4: a start task whose instance is running issues at most the running
\* query and changes no container, volume or image.
C4_StartOnRunningIsNoOp ==
    [][(Dispatched /\ Operation(Val(task)) = "start" /\ _running(Engine, TaskName)) =>
        /\ Cmds(calls') \in {<<>>, <<"ps">>}
        /\ containers' = containers
        /\ volumes' = volumes
        /\ images' = images
        /\ nextId' = nextId]_vars

\* C4 witness: a replayed start has returned a result with the instance
\* running and nothing but the running query issued.
C4_Witness ==
    /\ ReplayedWhileRunning
    /\ Val(result).status = "running"
    /\ Val(task).port_mapping = Some(InstanceOf(containers, TaskName).ports)

\* C5: the result of a start replayed while its instance runs reports the ssh
\* port the instance was created with.
C5_ReplayReportsOriginalPort ==
    ReplayedWhileRunning =>
        Val(result).ssh_port = SshPortOf(InstanceOf(containers, TaskName).ports)

\* C6: a start task whose instance exists but is stopped issues only the two
\* listing queries and the engine's start; it creates no volume, pulls no
\* image and runs nothing; when the engine's start succeeds the instance runs,
\* with the ports, memory and shared memory it was created with.
C6_StartOnStoppedResumes ==
    [][(Dispatched /\ Operation(Val(task)) = "start"
            /\ _exists(Engine, TaskName) /\ ~_running(Engine, TaskName)) =>
        LET inst == InstanceOf(containers, TaskName)
            resumed == (containers \ {inst}) \cup {[inst EXCEPT !.running = TRUE]}
        IN  /\ Cmds(calls') \in {<<>>, <<"ps">>, <<"ps", "ps -a", "start">>}
            /\ volumes' = volumes
            /\ images' = images
            /\ nextId' = nextId
            /\ containers' \in {containers, resumed}
            /\ (Len(calls') = 3 /\ calls'[3] = Ok("start")) => containers' = resumed
            /\ result' # None => (Cmds(calls') = <<"ps", "ps -a", "start">>
                                   /\ containers' = resumed)]_vars

\* C6 witness: a stopped instance has been resumed by a start task that asks
\* for another port table than the one the instance keeps.
C6_Witness ==
    /\ pc = "report"
    /\ Operation(Val(task)) = "start"
    /\ Cmds(calls) = <<"ps", "ps -a", "start">>
    /\ _running(Engine, TaskName)
    /\ Val(task).port_mapping # None
    /\ Val(task).port_mapping # Some(InstanceOf(containers, TaskName).ports)

\* C7: at most one instance holds any name.
C7_OneInstancePerName ==
    \A c \in containers, d \in containers : c.name = d.name => c = d

\* C7 witness: the name task_1 is held by the second instance created for it,
\* the first having been removed.
C7_Witness ==
    /\ volumes = {WorkVolume(ContainerName(1))}
    /\ \E c \in containers : c.name = ContainerName(1) /\ c.id = EngineId(2)

\* C8: once consecutive_errors has reached the threshold, the wait chosen
\* after a failed cycle of any kind is 60 s.
C8_LongWaitAtThreshold ==
    (pc = "pull" /\ cycle \in FailureKinds \cup {"exception", "process_failed"}
        /\ consecutive_errors >= max_consecutive_errors)
    => wait = 60

\* C9: a cycle whose status report failed leaves consecutive_errors counted,
\* not reset to zero.
C9_ReportFailureCounted ==
    (pc = "pull" /\ cycle = "reported" /\ ~Val(report).ret) => consecutive_errors > 0

\* C10: a poll that finds no task resets consecutive_errors to zero, chooses
\* the 10 s wait, dispatches nothing (no engine change, no callback result) and
\* reports no status.
C10_NoTaskResets ==
    [][cycle' = "notask" =>
        /\ pc' = "pull"
        /\ consecutive_errors' = 0
        /\ wait' = 10
        /\ task' = None /\ result' = None /\ calls' = <<>> /\ report' = None
        /\ containers' = containers /\ volumes' = volumes
        /\ images' = images /\ nextId' = nextId]_vars

\* C10 witness: a no-task cycle has ended, after cycles that created a volume.
C10_Witness ==
    cycle = "notask" /\ consecutive_errors = 0 /\ wait = 10 /\ volumes # {}

\* C11: the polling thread holds at most one task: a task is pulled only when
\* the thread is at its pull position, that is after the callback of the task
\* before has returned and its status report, if it had a result, was sent;
\* the callback runs on the task pulled last and the report is about it.
C11_OneTaskInFlight ==
    [][/\ (task' # task) => (pc = "pull" /\ pc' \in {"pull", "dispatch"})
       /\ (pc # "dispatch" /\ pc' = "dispatch") =>
             (pc = "pull" /\ task' # None /\ result' = None /\ report' = None)
       /\ (pc = "dispatch" /\ pc' = "pull") =>
             (task' = task /\ result' = None /\ report' = None)
       /\ (pc # "report" /\ pc' = "report") =>
             (pc = "dispatch" /\ task' = task /\ result' # None /\ report' = None)
       /\ (pc = "report" /\ pc' # "report") =>
             (/\ pc' = "pull" /\ task' = task /\ result' = result
              /\ report' # None
              /\ Val(report').data.task_id = Val(task).id)]_vars

\* C11 witness: a second task is in the callback after the first one created
\* its instance and was reported.
C11_Witness ==
    /\ pc = "dispatch"
    /\ Val(task).id = 1
    /\ Operation(Val(task)) = "stop"
    /\ \E c \in containers : c.name = ContainerName(1) /\ c.running

\* C12: a pass of the main loop, whatever its heartbeat attempt meets, leaves
\* the main loop running and changes nothing of the polling thread (its
\* position, consecutive_errors, its wait); a step of the polling thread
\* changes nothing of the main loop; and while the main loop runs a tick is
\* possible in every position of the polling thread, the callback included.
C12_HeartbeatIndependent ==
    /\ [](main = "running" => ENABLED (\E reply \in HeartbeatReplies : Tick(reply)))
    /\ [][/\ (heartbeat_counter' # heartbeat_counter) =>
               (main' = "running" /\ UNCHANGED pollVars)
          /\ (main' = "stopped") => UNCHANGED <<heartbeat_counter, heartbeat>>
          /\ (pollVars' # pollVars) => UNCHANGED mainVars]_vars

\* C12 witness: a heartbeat attempt raised on the fifth tick while the
\* callback of a task was running, after polling failures were counted.
C12_Witness ==
    /\ main = "running"
    /\ pc = "dispatch"
    /\ heartbeat = "raise"
    /\ heartbeat_counter = 0
    /\ consecutive_errors = 3

\* The task of the current cycle is a control task / a provisioning task.
IsControl == task # None /\ Operation(Val(task)) \in {"stop", "stop_remove"}
IsStart == task # None /\ Operation(Val(task)) = "start"
MissingIdMessage == Some(<<"Missing container_id in control task">>)

\* C13: a control task that names no container_id, in its task data or in its
\* connectivity block, gets the result failed with the error message "Missing
\* container_id in control task"; neither stop_by_id nor remove_by_id is
\* invoked, and the cycle ends with that failed status reported.
C13_MissingIdFails ==
    (IsControl /\ ~HasControlId(Val(task)) /\ pc # "dispatch") =>
        /\ result # None
        /\ Val(result).status = "failed"
        /\ Val(result).error_message = MissingIdMessage
        /\ calls = <<>>
        /\ pc = "pull" =>
              (/\ cycle = "reported"
               /\ report # None
               /\ Val(report).data.task_id = Val(task).id
               /\ Val(report).data.status = "failed"
               /\ Val(report).data.error_message = MissingIdMessage)

\* C13 witness: the failed status of a stop_remove task without container_id
\* has been reported while the instance task_1 runs untouched.
C13_Witness ==
    /\ IsControl /\ ~HasControlId(Val(task))
    /\ Operation(Val(task)) = "stop_remove"
    /\ pc = "pull" /\ cycle = "reported"
    /\ Val(report).data.status = "failed"
    /\ \E c \in containers : c.running

\* What the engine answered tells whether a step succeeded.
StopSucceeded(c) == c.rc = 0 \/ "No such container" \in c.out \/ "is not running" \in c.out
RemoveSucceeded(c) == c.rc = 0 \/ "No such container" \in c.out

\* C14: a control task with a container_id is completed exactly when every
\* step it requires succeeded (stop; for stop_remove also remove); otherwise
\* it is failed and its error message lists exactly the failed steps, "stop
\* failed" before "remove failed"; operation stop never attempts a remove.
C14_ControlOutcome ==
    (IsControl /\ HasControlId(Val(task)) /\ pc # "dispatch") =>
        LET remove == Operation(Val(task)) = "stop_remove"
            stopOk == Len(calls) >= 1 /\ calls[1].cmd = "stop" /\ StopSucceeded(calls[1])
            removeOk == Len(calls) >= 2 /\ calls[2].cmd = "rm" /\ RemoveSucceeded(calls[2])
            failed == (IF ~stopOk THEN <<"stop failed">> ELSE <<>>)
                      \o (IF remove /\ ~removeOk THEN <<"remove failed">> ELSE <<>>)
        IN  /\ result # None
            /\ ~remove => "rm" \notin Range(Cmds(calls))
            /\ Val(result).status = "completed" <=> (stopOk /\ (remove => removeOk))
            /\ Val(result).status \in {"completed", "failed"}
            /\ Val(result).status = "completed" => Val(result).error_message = None
            /\ Val(result).status = "failed" => Val(result).error_message = Some(failed)

\* C14 witness: a stop_remove whose stop and remove both failed.
C14_Witness ==
    /\ IsControl /\ HasControlId(Val(task))
    /\ pc = "report"
    /\ Val(result).status = "failed"
    /\ Val(result).error_message = Some(<<"stop failed", "remove failed">>)

\* C15: a provisioning task without docker_image ends before any engine
\* call or port check: process_task returns no result and the control loop
\* sends no status report for it.
C15_NoImageAborts ==
    (IsStart /\ Val(task).docker_image = None /\ pc # "dispatch") =>
        /\ result = None
        /\ calls = <<>>
        /\ caught = None
        /\ report = None
        /\ pc = "pull"
        /\ cycle = "process_failed"

\* C15 witness: the cycle of a start task without docker_image has ended.
C15_Witness ==
    /\ IsStart /\ Val(task).docker_image = None
    /\ pc = "pull" /\ cycle = "process_failed"
    /\ consecutive_errors = 1

\* The provisioning of the current task met an error: its last engine call
\* or port check failed, or its SSH credentials are missing.
MissingCredentials(t) ==
    \/ t.ssh_password = None
    \/ (t.port_mapping = None \/ Len(Val(t.port_mapping)) = 0) /\ t.ssh_port = None
ProvisioningError(t, calls_) ==
    \/ MissingCredentials(t)
    \/ Len(calls_) > 0 /\ calls_[Len(calls_)].rc # 0

\* C16: a provisioning task with an image returns no result exactly when an
\* error came up (ports in use, image unavailable, an engine command failed,
\* SSH credentials missing); then no status is reported, consecutive_errors
\* grows by one and the thread is back at its pull position.
C16_ProvisionErrorCounted ==
    [][(Dispatched /\ IsStart /\ Val(task).docker_image # None) =>
        /\ result' = None <=> ProvisioningError(Val(task), calls')
        /\ ~MissingCredentials(Val(task)) => (result' = None <=> caught' # None)
        /\ result' = None =>
              (/\ report' = None
               /\ consecutive_errors' = consecutive_errors + 1
               /\ pc' = "pull"
               /\ cycle' = "process_failed")]_vars

\* C16 witness: a start that found its port bound has ended its cycle
\* counted and unreported.
C16_Witness ==
    /\ IsStart
    /\ pc = "pull" /\ cycle = "process_failed"
    /\ caught # None /\ Val(caught)[1] = "ports in use"
    /\ consecutive_errors = 1
    /\ report = None

\* The instance the translated request was started as.
Started == pc # "dispatch" /\ containers # {}
Instance == CHOOSE c \in containers : TRUE
IsInt(raw) == raw # None /\ raw[1] = "int"

\* C17: for a positive integer RAM the shared memory passed to the start is
\* the half of the RAM rounded down, but at least 1 (8 gives 4, 1 gives 1);
\* it is unset when the RAM is unset, unparsable, zero or negative.
C17_ShmHalfOfRam ==
    Started =>
        LET ram == Val(task).ram_allocated_gb
            shm == Instance.shm
        IN  IF IsInt(ram) /\ ram[2] > 0
            THEN /\ shm # None
                 /\ Val(shm) >= 1
                 /\ ram[2] < 2 => Val(shm) = 1
                 /\ ram[2] >= 2 => (2 * Val(shm) <= ram[2] /\ ram[2] < 2 * Val(shm) + 2)
                 /\ ram[2] = 8 => Val(shm) = 4
            ELSE shm = None

\* C17 witness: an instance started for RAM 1 with shared memory 1.
C17_Witness ==
    /\ Started
    /\ Val(task).ram_allocated_gb = <<"int", 1>>
    /\ Instance.shm = Some(1)
    /\ Instance.memory = Some(1)

\* The affinity the per-pair rule gives: every pair whose two bounds parse
\* contributes "start-end", in order; unset when no pair does.
AffinityPerPair(cpu_allocated_ranges) ==
    LET pairs == SelectSeq(Items(cpu_allocated_ranges),
                           LAMBDA r : IsPair(r) /\ ParseInt(r[2]) # None /\ ParseInt(r[3]) # None)
    IN  IF Len(pairs) = 0 THEN None
        ELSE Some(Join([i \in 1..Len(pairs) |-> RangeStr(pairs[i])], ","))

\* C18: the CPU affinity passed to the start joins, in order and with commas,
\* the "start-end" of every pair that parses ([(0,3),(8,11)] gives
\* "0-3,8-11"); a pair that does not parse is skipped by itself, and the
\* affinity is unset only when no pair parses or the list is empty.
C18_AffinityPerPair ==
    Started => Instance.cpuset = AffinityPerPair(Val(task).cpu_allocated_ranges)

\* The selector the rule "unset unless gpu_required > 0" gives.
SelectorIfPositive(gpu_required, gpu_indices) ==
    LET indices == Items(gpu_indices)
    IN  IF IsInt(gpu_required) /\ gpu_required[2] > 0
        THEN IF Len(indices) > 0 /\ \A i \in 1..Len(indices) : IsInt(indices[i])
             THEN Some(Join([i \in 1..Len(indices) |-> ToString(indices[i][2])], ","))
             ELSE Some("all")
        ELSE None

\* C19: the device selector of a started task is unset unless gpu_required
\* is greater than zero; then it is the indices joined with commas, or "all"
\* when the indices are empty or malformed; zero and negative gpu_required
\* leave it unset.
C19_SelectorOnlyIfPositive ==
    (pc = "report" /\ IsStart) =>
        Val(result).allocated_resources.gpu_devices
            = SelectorIfPositive(Val(task).gpu_required, Val(task).gpu_enabled_indices)

\* Host ports the current start task requires.
RequiredPorts(t) ==
    IF t.port_mapping # None /\ Len(Val(t.port_mapping)) > 0
    THEN HostPorts(Val(t.port_mapping))
    ELSE {Val(t.ssh_port), Val(t.ssh_port) + 1}
PortsInUse(error) == error # None /\ Val(error)[1] = "ports in use"

\* C20: the port check of a start fails exactly when at least one host port
\* the task requires is bound, by another process or by a running instance;
\* the error names exactly the bound ports among the required ones, and no
\* port error is raised when all of them are free.
C20_PortCheckListsBound ==
    [][(Dispatched /\ IsStart /\ "bind" \in Range(Cmds(calls'))) =>
        LET busy == {h \in RequiredPorts(Val(task)) : h \in bound \/ h \in Published(Engine)}
        IN  /\ busy # {} <=> PortsInUse(caught')
            /\ busy # {} => (Val(caught')[2] = busy /\ result' = None
                              /\ calls'[Len(calls')].cmd = "bind")
            /\ busy = {} => Ok("bind") \in Range(calls')]_vars

\* C20 witness: a start that requires 5001 and 5002 failed on 5001 alone,
\* which a running instance publishes.
C20_Witness ==
    /\ IsStart
    /\ pc = "pull"
    /\ PortsInUse(caught)
    /\ RequiredPorts(Val(task)) = {5001, 5002}
    /\ Val(caught)[2] = {5001}

\* A start task with an image has gone through the create path: its name was
\* neither running nor existing and the port check was made.
CreatePathTaken ==
    /\ Dispatched /\ IsStart /\ Val(task).docker_image # None
    /\ "bind" \in Range(Cmds(calls'))
ImageAbsent == Call("image inspect", 1, {"No such image"})
MappingMode(t) == t.port_mapping # None /\ Len(Val(t.port_mapping)) > 0

\* C21: on the create path, an image that is neither local nor pulled makes
\* the start fail with the image error, with no volume created and no
\* container run; an image that is absent locally but pulled lets the start
\* go on to the volume and, the volume made, to the run.
C21_ImageUnavailableAborts ==
    [][(CreatePathTaken /\ ImageAbsent \in Range(calls')) =>
        LET cmds == Range(Cmds(calls'))
        IN  IF Ok("pull") \in Range(calls')
            THEN /\ Val(Val(task).docker_image) \in images'
                 /\ "volume create" \in cmds
                 /\ Ok("volume create") \in Range(calls') => "run" \in cmds
                 /\ Ok("run") \in Range(calls') =>
                       (/\ WorkVolume(TaskName) \in volumes'
                        /\ _running([containers |-> containers'], TaskName)
                        /\ result' # None)
            ELSE /\ result' = None
                 /\ caught' = Some(<<"image unavailable", Val(Val(task).docker_image)>>)
                 /\ cmds \cap {"volume create", "run"} = {}
                 /\ volumes' = volumes
                 /\ containers' = containers
                 /\ images' = images]_vars

\* C21 witness: a start failed on an image that could not be pulled.
C21_Witness ==
    /\ IsStart /\ pc = "pull" /\ cycle = "process_failed"
    /\ caught = Some(<<"image unavailable", "y">>)
    /\ "y" \notin images
    /\ Down("pull") \in Range(calls)

\* Scenario A: the base start task of id 1 enters the callback while no
\* instance task_1 exists, port 5000 is free and image x is local.
ScenarioA ==
    /\ Dispatched
    /\ Val(task) = BaseTask(1)
    /\ ~_exists(Engine, ContainerName(1))
    /\ _port_free(Engine, 5000)
    /\ "x" \in images

\* C22: in scenario A, the engine answering every command, the volume
\* task_1-work is created and exactly one container is run, named task_1,
\* with shared memory 4g, memory 8g, swap 8g and port 5000 mapped to 22; the
\* result is running with ssh_port 5000 and the id of that container, and
\* the report sent for it carries status running.
C22_ScenarioA ==
    [][/\ (ScenarioA /\ \A i \in 1..Len(calls') : calls'[i].rc = 0) =>
            LET created == containers' \ containers
            IN  /\ volumes' = volumes \cup {"task_1-work"}
                /\ Cardinality(created) = 1
                /\ \A c \in created :
                      /\ c.name = "task_1" /\ c.running
                      /\ c.shm_size = Some("4g")
                      /\ c.memory = Some(8) /\ c.swap = Some(8)
                      /\ c.ports = << <<5000, 22>> >>
                      /\ Val(result').container_id = Some(c.id)
                /\ Val(result').status = "running"
                /\ Val(result').ssh_port = Some(5000)
                /\ pc' = "report"
       /\ (pc = "report" /\ pc' # "report" /\ Val(task) = BaseTask(1)) =>
            (/\ report' # None
             /\ Val(report').data.task_id = 1
             /\ Val(report').data.status = Val(result).status
             /\ Val(report').data.container_id = Val(result).container_id)]_vars

\* C22 witness: the running status of scenario A has been reported.
C22_Witness ==
    /\ pc = "pull" /\ cycle = "reported"
    /\ task = Some(BaseTask(1))
    /\ Len(calls) > 0 /\ calls[Len(calls)] = Ok("run")
    /\ Val(report).data.status = "running"
    /\ Val(result).ssh_port = Some(5000)
    /\ \E c \in containers : c.name = "task_1" /\ c.shm_size = Some("4g") /\ c.swap = Some(8)

\* ------------------------------------------------------------------ C23
Last(log) == log[Len(log)]

FatalEvents == {"docker unavailable", "confirm failed", "save failed",
                "polling start failed"}

NonFatalEvents == {"permissions failed", "gpu unsupported", "init report failed"}

NothingStarted ==
    /\ pc = "off"
    /\ heartbeat_counter = 0
    /\ heartbeat = "none"

\* C23 as stated: run() returns early only when the container engine was
\* found unavailable.
C23_OnlyEngineFatal ==
    main = "returned" => "docker unavailable" \in Range(init_log)

\* C23 (amended): run() returns early exactly after the engine was found
\* unavailable, the first-run identity exchange failed (no token, an
\* exception, or the token could not be saved) or the polling thread could
\* not be started, and then neither polling nor the heartbeat loop has
\* started; a failed permission repair, missing accelerator support and a
\* failed initialization report never end run(), which goes on to its next
\* step, and once polling runs all earlier steps were passed.
C23_FatalInitialization ==
    /\ [](main = "returned" =>
            /\ init_log # <<>>
            /\ Last(init_log) \in FatalEvents
            /\ NothingStarted)
    /\ [](main = "running" => Range(init_log) \cap FatalEvents = {})
    /\ [][(init_log' # init_log /\ Last(init_log') \in NonFatalEvents) =>
            /\ main' \in {"check_gpu", "confirm", "send_init", "start_polling"}
            /\ main' # main]_vars

\* All three non-fatal problems happened and the agent polls.
C23_Witness ==
    /\ main = "running"
    /\ pc = "pull"
    /\ NonFatalEvents \subseteq Range(init_log)

\* ------------------------------------------------------------------ C26
ExchangeEvents == {"confirm", "confirm failed", "save", "save failed"}

InitReports == {"init report ok", "init report failed"}

Exchanged == init_log' # init_log /\ Last(init_log') \in ExchangeEvents

\* C26: the identity exchange is made only when no token was loaded; on
\* success the token is the client credential and is in AGENT_ID_FILE before
\* the initialization report is pushed; on failure run() returns with no
\* token persisted and polling never started; with a token loaded from an
\* earlier run there is no exchange and the token stays as loaded.
C26_IdentityExchange ==
    /\ [][Exchanged => Falsy(agent_id) /\ Falsy(id_file)
                       /\ Range(init_log) \cap InitReports = {}]_vars
    /\ [][(Exchanged /\ Last(init_log') = "save") =>
            /\ credential' = Some(IssuedToken)
            /\ agent_id' = Some(IssuedToken)
            /\ id_file' = Some(IssuedToken)
            /\ main' = "send_init"]_vars
    /\ []((Range(init_log) \cap InitReports # {} /\ "confirm" \in Range(init_log)) =>
            /\ credential = Some(IssuedToken)
            /\ id_file = Some(IssuedToken))
    /\ []((init_log # <<>> /\ Last(init_log) \in {"confirm failed", "save failed"}) =>
            /\ main = "returned"
            /\ Falsy(id_file)
            /\ pc = "off")
    /\ [](id_file = Some("a0") =>
            /\ Range(init_log) \cap ExchangeEvents = {}
            /\ agent_id = Some("a0")
            /\ credential = Some("a0"))

\* A first run whose exchange succeeded and whose report was pushed.
C26_Witness ==
    /\ "save" \in Range(init_log)
    /\ "init report ok" \in Range(init_log)
    /\ id_file = Some(IssuedToken)
    /\ pc = "pull"

\* ------------------------------------------------------------------ C24
PollFailures == FailureKinds \cup {"exception"}

ProcessingFailures == {"process_failed"}

CycleFailed == pollVars' # pollVars /\ cycle' \in PollFailures \cup ProcessingFailures

\* C24: no failure ends the polling loop: a cycle that fails in the poll
\* (timeout, connection error, status other than 200, malformed or exception
\* response, invalid task data) or in the callback adds exactly one to
\* consecutive_errors and leaves the loop at its next poll; the loop is never
\* off, and as long as callbacks return it polls again and again.
C24_LoopSurvivesFailures ==
    /\ [][CycleFailed =>
            /\ consecutive_errors' = consecutive_errors + 1
            /\ pc' = "pull"
            /\ main' = main]_vars
    /\ [](pc # "off")
    /\ []<>(pc = "pull")
    /\ []<><<Poll(LiveTasks, MaxErrors)>>_vars

\* The callback failed after failed polls and the loop is at its next poll.
C24_Witness ==
    /\ cycle = "process_failed"
    /\ consecutive_errors >= max_consecutive_errors
    /\ pc = "pull"

\* ------------------------------------------------------------------ C25
\* The place of each engine command in the create path.
Rank(cmd) ==
    CASE cmd = "ps" -> 1
      [] cmd = "ps -a" -> 2
      [] cmd = "bind" -> 3
      [] cmd = "image inspect" -> 4
      [] cmd = "pull" -> 5
      [] cmd = "volume create" -> 6
      [] cmd = "run" -> 7
      [] OTHER -> 0

\* C25: on the create path the steps come in the order port check, image
\* inspect (and pull), volume create, run, each at most once; a step is made only if every step before it succeeded (an
\* image not found locally is followed by its pull); a port conflict leaves
\* images, volumes and containers as they were; and the id returned after
\* a successful run is the id of the one container that run created.
C25_CreatePathOrder ==
    [][CreatePathTaken =>
        LET cs == calls'
            cmds == Cmds(calls')
        IN  /\ \A i \in 1..Len(cs) : Rank(cmds[i]) > 0
            /\ \A i, j \in 1..Len(cs) : i < j => Rank(cmds[i]) < Rank(cmds[j])
            /\ \A i \in 1..(Len(cs) - 1) :
                  \/ cs[i].rc = 0
                  \/ cs[i] = ImageAbsent /\ cmds[i + 1] = "pull"
            /\ "run" \in Range(cmds) => "volume create" \in Range(cmds)
            /\ "volume create" \in Range(cmds) => "image inspect" \in Range(cmds)
            /\ "image inspect" \in Range(cmds) => Ok("bind") \in Range(cs)
            /\ PortsInUse(caught') =>
                  /\ Range(cmds) \cap {"image inspect", "pull", "volume create", "run"} = {}
                  /\ images' = images /\ volumes' = volumes /\ containers' = containers
                  /\ result' = None
            /\ ~PortsInUse(caught') /\ cs[Len(cs)].rc # 0 =>
                  /\ containers' = containers
                  /\ result' = None
            /\ Ok("run") \in Range(cs) =>
                  /\ Cardinality(containers' \ containers) = 1
                  /\ \A c \in containers' \ containers :
                        /\ c.name = TaskName
                        /\ Val(result').container_id = Some(c.id)]_vars

\* C25 witness: a start whose image is not local met a port conflict; no
\* image was pulled and no volume made.
C25_Witness ==
    /\ IsStart /\ pc = "pull" /\ cycle = "process_failed"
    /\ PortsInUse(caught)
    /\ Val(task).docker_image = Some("y")
    /\ "y" \notin images
    /\ volumes = {}
    /\ calls[Len(calls)].cmd = "bind"

\* ------------------------------------------------------------------ C27
SshEntries(pm) == {i \in 1..Len(pm) : pm[i][2] = 22}

\* C27: in port-mapping mode a run publishes the entries of the task's
\* table, each once and nothing else, and every result of the mode carries
\* as ssh_port the host port of an entry whose container port is 22 (no
\* ssh_port when the table has no such entry).
C27_MappingApplied ==
    (IsStart /\ pc # "dispatch" /\ MappingMode(Val(task))) =>
        LET pm == Val(Val(task).port_mapping)
        IN  /\ Ok("run") \in Range(calls) =>
                \E c \in containers :
                    /\ Val(result).container_id = Some(c.id)
                    /\ Len(c.ports) = Len(pm)
                    /\ Range(c.ports) = Range(pm)
            /\ result # None =>
                IF SshEntries(pm) = {}
                THEN Val(result).ssh_port = None
                ELSE \E i \in SshEntries(pm) : Val(result).ssh_port = Some(pm[i][1])

\* C27 witness: a two-entry table was applied and the result names 5001.
C27_Witness ==
    /\ IsStart /\ pc = "report"
    /\ Val(task).port_mapping = Some(PM_B)
    /\ Ok("run") \in Range(calls)
    /\ Val(result).ssh_port = Some(5001)
    /\ \E c \in containers : c.ports = PM_B /\ Val(result).container_id = Some(c.id)

\* ------------------------------------------------------------------ C28
LegacyMode(t) == ~MappingMode(t)

Busy(port) == port \in bound \/ port \in Published(Engine)

\* C28: a legacy start (no port table) without SSH password or without SSH
\* port ends with no result and no engine call; with both, a run publishes
\* exactly ssh_port -> 22 and ssh_port + 1 -> 8888, is preceded by the port
\* check, and is not made when either of the two host ports is taken; the
\* result names ssh_port.
C28_LegacyPorts ==
    [][(Dispatched /\ IsStart /\ LegacyMode(Val(task)) /\ Val(task).docker_image # None) =>
        IF Val(task).ssh_password = None \/ Val(task).ssh_port = None
        THEN /\ result' = None
             /\ calls' = <<>>
             /\ containers' = containers
        ELSE LET port == Val(Val(task).ssh_port)
                 cmds == Cmds(calls')
             IN  /\ "run" \in Range(cmds) =>
                       /\ ~Busy(port) /\ ~Busy(port + 1)
                       /\ \E i, j \in 1..Len(cmds) :
                             i < j /\ calls'[i] = Ok("bind") /\ cmds[j] = "run"
                 /\ ("bind" \in Range(cmds) /\ (Busy(port) \/ Busy(port + 1))) =>
                       /\ "run" \notin Range(cmds)
                       /\ PortsInUse(caught')
                 /\ Ok("run") \in Range(calls') =>
                       \A c \in containers' \ containers :
                          c.ports = << <<port, 22>>, <<port + 1, 8888>> >>
                 /\ result' # None => Val(result').ssh_port = Some(port)]_vars

\* C28 witness: a legacy start on 5000 was refused because 5001 alone is
\* taken.
C28_Witness ==
    /\ IsStart /\ pc = "pull" /\ cycle = "process_failed"
    /\ LegacyMode(Val(task))
    /\ Val(task).ssh_port = Some(5000)
    /\ caught = Some(<<"ports in use", {5001}>>)
    /\ "run" \notin Range(Cmds(calls))

\* ------------------------------------------------------------------ C29
AllSucceeded(calls_) == calls_ # <<>> /\ \A i \in 1..Len(calls_) : calls_[i].rc = 0

\* C29: the run carries a memory limit, and a swap limit, exactly when
\* ram_allocated_gb parses to an integer; the two limits are then that
\* integer; with ram_allocated_gb absent or unparsable the instance is still
\* started, without either limit.
C29_MemoryAndSwap ==
    /\ Started =>
          LET ram == Val(task).ram_allocated_gb
          IN  /\ Instance.memory # None <=> IsInt(ram)
              /\ Instance.swap # None <=> IsInt(ram)
              /\ IsInt(ram) => (Instance.memory = Some(ram[2]) /\ Instance.swap = Some(ram[2]))
    /\ (pc # "dispatch" /\ ~IsInt(Val(task).ram_allocated_gb) /\ AllSucceeded(calls)) =>
          /\ Started
          /\ result # None
          /\ Val(result).status = "running"

\* C29 witness: an instance started for an unparsable RAM, without limits.
C29_Witness ==
    /\ Started /\ pc = "report"
    /\ Val(task).ram_allocated_gb = <<"bad">>
    /\ Instance.memory = None
    /\ Instance.swap = None

\* ------------------------------------------------------------------ C30
MemoryPositive(ram) == IsInt(ram) /\ ram[2] > 0

\* C30 as stated: with the memory unset or not positive the run carries no
\* shared-memory size argument.
C30_NoShmArgument ==
    (Started /\ ~MemoryPositive(Val(task).ram_allocated_gb)) => Instance.shm_size = None

\* C30 (amended): with the memory unset or not positive no shared-memory
\* size is passed to the start, and the run carries the default
\* shared-memory size of the settings, 1g.
C30_DefaultShmSize ==
    (Started /\ ~MemoryPositive(Val(task).ram_allocated_gb)) =>
        /\ Instance.shm = None
        /\ Instance.shm_size = Some("1g")

\* C30 witness: an instance started for RAM 0 runs with --shm-size 1g.
C30_Witness ==
    /\ Started
    /\ Val(task).ram_allocated_gb = <<"int", 0>>
    /\ Instance.shm_size = Some(shm_size)
    /\ Instance.memory = Some(0)

\* ------------------------------------------------------------------ C31
Ticked == heartbeat_counter' # heartbeat_counter \/ heartbeat' # heartbeat

\* C31: between ticks heartbeat_counter is in 0..4; a tick from 0..3 adds one
\* and attempts no heartbeat; the tick from 4 attempts the heartbeat and
\* leaves the counter at zero whatever the attempt met (sent, refused,
\* raised), with the main loop still running.
C31_EveryFifthTick ==
    /\ [](heartbeat_counter \in 0..4)
    /\ [][Ticked =>
            IF heartbeat_counter = 4
            THEN /\ heartbeat' \in HeartbeatReplies
                 /\ heartbeat_counter' = 0
                 /\ main' = "running"
            ELSE /\ heartbeat' = "none"
                 /\ heartbeat_counter' = heartbeat_counter + 1]_vars

\* C31 witness: the monitoring data could not be collected on a fifth tick
\* and the counter is back at zero.
C31_Witness ==
    /\ main = "running"
    /\ heartbeat = "collect_raise"
    /\ heartbeat_counter = 0

C33_VisibleDevices ==
    (Started /\ result # None) =>
        LET allocated == Val(result).allocated_resources
            selector == allocated.gpu_devices
        IN  /\ selector # None => Instance.devices = Val(selector)
            /\ selector = None => Instance.devices = "all"
            /\ allocated.gpu_support <=> selector # None
            /\ Val(task).gpu_required = <<"int", 0>> =>
                  /\ Instance.devices = "all"
                  /\ selector = None
                  /\ ~allocated.gpu_support

\* C33 witness: gpu_required = 0 with indices given; all devices visible,
\* none reported.
C33_Witness ==
    /\ Started /\ pc = "report"
    /\ Val(task).gpu_required = <<"int", 0>>
    /\ Val(task).gpu_enabled_indices = List(<< <<"int", 0>>, <<"int", 1>> >>)
    /\ Instance.devices = "all"
    /\ Val(result).allocated_resources.gpu_devices = None
    /\ ~Val(result).allocated_resources.gpu_support

\* ------------------------------------------------------------------ C34
\* C34: a status report is sent only for the result the callback returned
\* for the pulled task, once: the report step starts with no report sent in
\* this cycle, carries the task's id and the result's status, and ends the
\* cycle; a callback that returns nothing ends the cycle without a report;
\* pulled data with a task id but without task data or connectivity block
\* ends the cycle with no callback and no report.
C34_OneReportPerTask ==
    /\ [][/\ (report' # report /\ report' # None) =>
               /\ pc = "report" /\ pc' = "pull"
               /\ report = None
               /\ result # None /\ result' = result
               /\ Val(report').data.task_id = Val(task).id
               /\ Val(report').data.status = Val(result).status
          /\ (pc = "report" /\ pollVars' # pollVars) => report' # None
          /\ (Dispatched /\ result' = None) => (report' = None /\ pc' = "pull")
          /\ (Dispatched /\ result' # None) => (report' = None /\ pc' = "report")
          /\ (pollVars' # pollVars /\ cycle' = "invalid") =>
               /\ pc = "pull" /\ pc' = "pull"
               /\ task' = None /\ calls' = <<>> /\ result' = None
               /\ report' = None]_vars
    /\ [](report # None => (cycle = "reported" /\ pc = "pull"))

\* C34 witness: the failed status of a control task was reported, once, and
\* the report itself was refused.
C34_Witness ==
    /\ pc = "pull" /\ cycle = "reported"
    /\ IsControl
    /\ Val(result).status = "failed"
    /\ report # None
    /\ ~Val(report).ret

\* ------------------------------------------------------------------ C35
HasContainerId(t) == ~Falsy(Or(t.td_container_id, t.ci_container_id))

\* C35: a stop_remove task that names its instance makes exactly two engine
\* invocations, the stop and then the remove, whatever the stop returned; a
\* stop task makes the stop alone.
C35_RemoveAfterStop ==
    (IsControl /\ pc # "dispatch" /\ HasContainerId(Val(task))) =>
        IF Operation(Val(task)) = "stop_remove"
        THEN /\ Cmds(calls) = <<"stop", "rm">>
             /\ calls[1].rc # 0 => calls[2].cmd = "rm"
        ELSE Cmds(calls) = <<"stop">>

\* C35 witness: the stop was refused by the engine and the remove was still
\* invoked.
C35_Witness ==
    /\ IsControl /\ pc = "report"
    /\ Operation(Val(task)) = "stop_remove"
    /\ Len(calls) = 2
    /\ calls[1] = Down("stop")
    /\ calls[2].cmd = "rm"
    /\ Val(result).status = "failed"

\* ------------------------------------------------------------------ C36
FailedControl(res) == IsControl /\ res # None /\ Val(res).status = "failed"

\* C36: a control task always returns a result, without touching
\* consecutive_errors; when the result is failed (container id missing, stop
\* failed, remove failed) the failed status is reported, consecutive_errors
\* becomes zero whatever it was, and the wait before the next poll is the
\* short one.
C36_ControlFailureIsProcessed ==
    [][/\ (Dispatched /\ IsControl) =>
            /\ result' # None
            /\ pc' = "report"
            /\ consecutive_errors' = consecutive_errors
       /\ (pc = "report" /\ pc' # "report" /\ FailedControl(result)) =>
            /\ report' # None
            /\ Val(report').data.status = "failed"
            /\ Val(report').data.error_message = Val(result).error_message
            /\ consecutive_errors' = 0
            /\ wait' = 10
            /\ cycle' = "reported"]_vars

\* C36 witness: a failed remove was reported after five failed cycles and
\* the short wait is back.
C36_Witness ==
    /\ pc = "pull" /\ cycle = "reported"
    /\ FailedControl(result)
    /\ Val(result).error_message = Some(<<"remove failed">>)
    /\ Val(report).data.status = "failed"
    /\ consecutive_errors = 0
    /\ wait = 10

\* ------------------------------------------------------------------ C37
TaskContainerId == Val(Or(Val(task).td_container_id, Val(task).ci_container_id))

RunningDesignated(cs) == \E c \in Designated(cs, TaskContainerId) : c.running

\* C37: when the stop step of a stop_remove task fails on a running instance
\* for a reason of the engine, the remove step is refused with an error that
\* is not "No such container" and returns failure; the instance is still
\* there and running, and the result is failed, naming both steps.
C37_RunningNotRemoved ==
    [][(/\ Dispatched /\ IsControl /\ Operation(Val(task)) = "stop_remove"
        /\ HasContainerId(Val(task))
        /\ RunningDesignated(containers)
        /\ ~StopSucceeded(calls'[1])) =>
            /\ Len(calls') = 2
            /\ calls'[2].cmd = "rm"
            /\ calls'[2].rc # 0
            /\ "No such container" \notin calls'[2].out
            /\ containers' = containers
            /\ RunningDesignated(containers')
            /\ Val(result').status = "failed"
            /\ Val(result').error_message = Some(<<"stop failed", "remove failed">>)]_vars

\* C37 witness: the stop raised, the engine refused to remove the running
\* instance, and the task is failed with the instance running.
C37_Witness ==
    /\ IsControl /\ pc = "report"
    /\ Operation(Val(task)) = "stop_remove"
    /\ calls = <<Call("stop", -1, {}), Call("rm", 1, {"cannot remove a running container"})>>
    /\ RunningDesignated(containers)
    /\ Val(result).status = "failed"

\* ------------------------------------------------------------------ C38
NoSshEntry(t) == MappingMode(t) /\ SshEntries(Val(t.port_mapping)) = {}

\* C38: a start in port-mapping mode whose table has no entry for container
\* port 22 is provisioned like any other: a run publishes every entry of the
\* table, and the result is running with neither ssh_port nor ssh_command.
C38_NoSshEntry ==
    (IsStart /\ pc # "dispatch" /\ NoSshEntry(Val(task))) =>
        /\ Ok("run") \in Range(calls) =>
              /\ result # None
              /\ \E c \in containers :
                    /\ c.name = TaskName /\ c.running
                    /\ c.ports = Val(Val(task).port_mapping)
                    /\ Val(result).container_id = Some(c.id)
        /\ result # None =>
              /\ Val(result).status = "running"
              /\ Val(result).ssh_port = None
              /\ Val(result).ssh_command = None

\* C38 witness: the table 5003 -> 8888 was applied and the result has no
\* SSH port.
C38_Witness ==
    /\ IsStart /\ pc = "report"
    /\ Val(task).port_mapping = Some(PM_C)
    /\ Ok("run") \in Range(calls)
    /\ \E c \in containers : c.ports = PM_C /\ c.running
    /\ Val(result).ssh_command = None

\* ------------------------------------------------------------------ C39
\* The operation values that read stop or stop_remove once surrounding
\* whitespace is dropped and letters are lower-cased.
ControlSpellings ==
    {Some(op_stop), Some(op_stop_remove), Some(op_STOP_padded), Some(op_Stop_Remove_nl)}
FreshEngine ==
    [containers |-> {}, volumes |-> {}, images |-> {"x"}, nextId |-> 1, bound |-> {}]
AsStart(t) == [t EXCEPT !.operation = Some(op_start)]

\* C39: a task is handled as a control task exactly when its operation,
\* trimmed and lower-cased, is stop or stop_remove: such a task only ever
\* issues stop and rm, returns a control result and starts nothing, even when
\* it carries an image, a password and a port table; a task with any other
\* operation (none, empty, unknown) issues no stop or rm and ends exactly as
\* the same task with operation start.
C39_ControlPathOnly ==
    (task # None /\ pc # "dispatch") =>
        IF Val(task).operation \in ControlSpellings
        THEN /\ result # None
             /\ Range(Cmds(calls)) \subseteq {"stop", "rm"}
             /\ HasContainerId(Val(task)) => calls # <<>> /\ calls[1].cmd = "stop"
             /\ "allocated_resources" \notin DOMAIN Val(result)
             /\ Val(result).status \in {"completed", "failed"}
             /\ containers = {} /\ volumes = {}
        ELSE /\ Range(Cmds(calls)) \cap {"stop", "rm"} = {}
             /\ result # None => "allocated_resources" \in DOMAIN Val(result)
             /\ \E f \in Faults :
                   LET out == process_task(FreshEngine, AsStart(Val(task)), f)
                   IN  /\ out.calls = calls /\ out.result = result
                       /\ out.e.containers = containers

\* C39 witness: " STOP " on a task that carries everything a start needs
\* ended as a stop.
C39_Witness ==
    /\ task # None /\ pc = "report"
    /\ Val(task).operation = Some(op_STOP_padded)
    /\ Val(task).docker_image = Some("x")
    /\ Cmds(calls) = <<"stop">>
    /\ Val(result).status = "completed"

\* A task without operation was started.
C39_StartedWithoutOperation ==
    /\ task # None /\ pc = "report"
    /\ Val(task).operation = None
    /\ Ok("run") \in Range(calls)
    /\ Val(result).status = "running"

====
